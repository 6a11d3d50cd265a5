---------------------------- MODULE EventMailbox ----------------------------
(***************************************************************************)
(* What the hook queue promises to the programs that call `gw hook`: a     *)
(* request that was sent stays pending until a handler run has served it;  *)
(* only a crash inside the rewrite of the queue file may lose one; and     *)
(* between two crashes each handler run serves a newer request than the    *)
(* run before it (and with it older duplicates of that request).           *)
(***************************************************************************)
EXTENDS Naturals

VARIABLES
    sent,        \* number of requests ever sent; they are named 1..sent
    pending,     \* requests not yet forgotten
    served,      \* requests a handler run has served
    lost,        \* requests a crash destroyed
    newest       \* newest request served since the last crash, 0 if none

mailboxVars == <<sent, pending, served, lost, newest>>

Init ==
    /\ sent = 0 /\ newest = 0
    /\ pending = {} /\ served = {} /\ lost = {}

Send ==
    /\ sent' = sent + 1
    /\ pending' = pending \cup {sent + 1}
    /\ UNCHANGED <<served, lost, newest>>

\* One handler run serves every pending request of the set S.
Serve(S) ==
    /\ newest' \in S
    /\ newest < newest'
    /\ \A n \in S : n <= newest'
    /\ served' = served \cup S
    /\ UNCHANGED <<sent, pending, lost>>

Forget(S) ==
    /\ S \subseteq served
    /\ pending' = pending \ S
    /\ UNCHANGED <<sent, served, lost, newest>>

Crash(S) ==
    /\ pending' = pending \ S
    /\ lost' = lost \cup S
    /\ newest' = 0
    /\ UNCHANGED <<sent, served>>

Next ==
    \/ Send
    \/ \E S \in SUBSET pending : Serve(S) \/ Forget(S) \/ Crash(S)

Spec == Init /\ [][Next]_mailboxVars
=============================================================================
