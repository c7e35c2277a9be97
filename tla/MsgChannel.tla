----------------------------- MODULE MsgChannel -----------------------------
(***************************************************************************)
(* What a connection of the framework promises to those who send and        *)
(* receive messages on it: whole messages, in the order of the sends, each   *)
(* once, and, when it breaks, the first ones of those under way.  Messages   *)
(* may be set aside, but only all of those sent, and only before the first   *)
(* is delivered; they are taken up again behind the others.  A torn channel  *)
(* promises nothing any more.                                               *)
(***************************************************************************)
EXTENDS Naturals, Sequences

CONSTANT Msg

VARIABLES queue,   \* sent and not yet delivered
          aside,   \* sent and overtaken by those in queue
          got,     \* delivered
          state    \* "open", "closed" or "torn"

vars == <<queue, aside, got, state>>

Init == queue = <<>> /\ aside = <<>> /\ got = <<>> /\ state = "open"

Send(m) ==
  /\ state = "open"
  /\ queue' = Append(queue, m)
  /\ UNCHANGED <<aside, got, state>>

Deliver ==
  /\ state # "torn" /\ queue # <<>>
  /\ got' = Append(got, Head(queue)) /\ queue' = Tail(queue)
  /\ UNCHANGED <<aside, state>>

SetAside ==
  /\ state = "open" /\ got = <<>> /\ aside = <<>>
  /\ queue' = <<>> /\ aside' = queue
  /\ UNCHANGED <<got, state>>

TakeUp ==
  /\ state = "open"
  /\ queue' = queue \o aside /\ aside' = <<>>
  /\ UNCHANGED <<got, state>>

Close ==
  /\ state # "torn" /\ state' = "closed" /\ aside' = <<>>
  /\ \E n \in 0 .. Len(queue) : queue' = SubSeq(queue, 1, n)
  /\ UNCHANGED got

Tear ==
  /\ state' = "torn" /\ queue' = <<>> /\ aside' = <<>>
  /\ UNCHANGED got

Next == (\E m \in Msg : Send(m)) \/ Deliver \/ SetAside \/ TakeUp \/ Close \/ Tear

Spec == Init /\ [][Next]_vars
=============================================================================
