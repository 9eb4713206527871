------------------------ MODULE MCContinuousScheduler ------------------------
EXTENDS ContinuousScheduler

None == {}
Three == 1 .. 3

\* Request 2 is offline.  Every request fits alone into four blocks of two
\* tokens; all three start together, but no two reach their full length there.
MixedOffline == {2}
MixedPrompt == <<2, 2, 4>>
MixedGen == <<3, 3, 2>>

\* Request 1 outgrows three blocks of two tokens, the prompt of 3 never fits;
\* request 2 is streamed and may be cancelled by its client.
OnlinePrompt == <<3, 2, 7>>
OnlineGen == <<5, 3, 1>>
OnlineStream == {2}

\* In the run about late cancellations an offline request is streamed too.
CancelStream == {2, 3}
=============================================================================
