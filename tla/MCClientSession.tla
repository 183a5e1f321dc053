-------------------------- MODULE MCClientSession --------------------------
(* ClientSession with few runs of the client program.                      *)
EXTENDS ClientSession, TLC

CONSTANTS alice, bob, carol

Use(c, n) == [id |-> c, requests |-> n]
NotStarted == Use(NoId, 0)

\* Two processes with any ids that may meet, and time for several requests.
PairPlans ==
  {<<Use(c, 3), Use(d, 3), NotStarted, NotStarted>> :
     <<c, d>> \in {<<alice, alice>>, <<alice, bob>>, <<alice, carol>>,
                  <<bob, bob>>, <<bob, carol>>}}

\* One id three times and another client, a request each: if the three are
\* ended while they wait, their answers fill a reply queue and hold up both
\* workers, and the fourth process meets a server that hangs.
HangPlan == <<Use(alice, 1), Use(alice, 1), Use(alice, 1), Use(carol, 1)>>

SessionPlans == PairPlans \cup {HangPlan}

RestartPlans == {<<Use(alice, 1), Use(alice, 1), Use(alice, 1)>>}

\* Workers are interchangeable.  For runs without liveness.
SessionSymmetry == Permutations(Workers)
=============================================================================
