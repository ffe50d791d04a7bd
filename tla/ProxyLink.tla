----------------------------- MODULE ProxyLink ------------------------------
(***************************************************************************)
(* What the websocket client promises the server, without goroutines,      *)
(* buffers, heartbeats or delays: over one link at a time it takes jobs    *)
(* one by one and answers each exactly once, on the link that brought it,  *)
(* before it takes the next; what is owed when a link is lost is never     *)
(* answered on another.  A client that is asked to stop stays stopped.     *)
(*                                                                         *)
(* WSClient implements this (its LinkSpec property).                       *)
(***************************************************************************)
EXTENDS Naturals

CONSTANT JobIds

VARIABLES link, \* "up", "down" or "stopped"
          owed  \* the jobs taken and not yet answered on the current link

lvars == <<link, owed>>

LInit == link = "down" /\ owed = {}

Connect == link = "down" /\ link' = "up" /\ owed' = {}

Take(j) == link = "up" /\ owed = {} /\ link' = "up" /\ owed' = {j}

Answer(j) == link = "up" /\ j \in owed /\ link' = "up" /\ owed' = owed \ {j}

Lose == link = "up" /\ link' = "down" /\ owed' = {}

End == link \in {"up", "down"} /\ link' = "stopped" /\ owed' = {}

LNext == \/ Connect \/ Lose \/ End
         \/ \E j \in JobIds : Take(j) \/ Answer(j)

LSpec == LInit /\ [][LNext]_lvars

=============================================================================
