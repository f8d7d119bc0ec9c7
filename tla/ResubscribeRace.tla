--------------------------- MODULE ResubscribeRace ---------------------------
(***************************************************************************)
(* Resubscribe with a record of which calls have been overtaken: a call is *)
(* overtaken when another one lands while it is under way.  Nothing in the *)
(* SDKs keeps that record; it serves the property only.                    *)
(***************************************************************************)
EXTENDS Resubscribe

VARIABLE overtaken  \* history: the calls under way that have been overtaken

raceVars == <<rvars, overtaken>>

\* A step that makes a subscription.
Replaces == state \notin Live /\ state' = "Active"

Overtake ==
  overtaken' = {c \in Attempts : /\ pc[c] # "idle" /\ pc'[c] # "idle"
                                 /\ c \in overtaken \/ Replaces}

RaceSpec ==
  RInit /\ overtaken = {} /\ [][RNext /\ Overtake]_raceVars

\* Any number of calls may overlap: one that has not itself been overtaken
\* since its first read makes a subscription without sessions.  The stale
\* listing behind claim_race_free thus takes another call that lands, and a
\* second cancel, between the first read of a call and its landing.
FreshUnlessOvertaken ==
  [][\A c \in Attempts \ overtaken :
       Replaces /\ pc[c] = "send" /\ pc'[c] = "idle" =>
         OpenSessions' = {}]_raceVars

=============================================================================
