---------------------------- MODULE ResponseQueue ----------------------------
(***************************************************************************)
(* What a connection promises to whoever hands it work: work is accepted   *)
(* in some order, and answered one at a time in that order.  An answer is  *)
(* sent, unless the work has none to send or the peer is lost; after the   *)
(* peer is lost nothing is sent any more.  Every piece of accepted work is *)
(* answered eventually.                                                    *)
(***************************************************************************)
EXTENDS Sequences

CONSTANTS
  Work,                 \* the kinds of work
  Silent,               \* those without an answer to send
  Handshakes            \* what else the connection may send

VARIABLES
  queue,                \* accepted and not yet answered, oldest first
  sent,                 \* everything sent
  lost                  \* the peer is lost

vars == <<queue, sent, lost>>

Init == queue = <<>> /\ sent = <<>> /\ lost = FALSE

Accept(w) ==
  /\ queue' = Append(queue, w)
  /\ UNCHANGED <<sent, lost>>

Deliver ==
  /\ ~lost
  /\ Head(queue) \notin Silent
  /\ sent' = Append(sent, Head(queue))
  /\ UNCHANGED lost

Skip ==
  /\ Head(queue) \in Silent
  /\ UNCHANGED <<sent, lost>>

Lose ==
  /\ Head(queue) \notin Silent
  /\ lost' = TRUE
  /\ UNCHANGED sent

Answer ==
  /\ queue # <<>>
  /\ queue' = Tail(queue)
  /\ Deliver \/ Skip \/ Lose

Handshake(h) ==
  /\ ~lost
  /\ sent' = Append(sent, h)
  /\ UNCHANGED <<queue, lost>>

\* The handshake could not be sent.
LoseHandshake ==
  /\ lost' = TRUE
  /\ UNCHANGED <<queue, sent>>

Next ==
  \/ \E w \in Work : Accept(w)
  \/ Answer
  \/ \E h \in Handshakes : Handshake(h)
  \/ LoseHandshake

Spec == Init /\ [][Next]_vars /\ WF_vars(Answer)
=============================================================================
