--------------------------- MODULE PublicAddress ---------------------------
(***************************************************************************)
(* What the STUN client promises its caller, without sockets, attempts or  *)
(* exceptions: a request is answered once, and either refused or answered  *)
(* with the address learnt last.  That address was learnt while the        *)
(* request was being served, or it is younger than the cache time the      *)
(* request allows.                                                         *)
(***************************************************************************)
EXTENDS Naturals

CONSTANTS Requests,     \* records with (at least) a field cacheTimeout, in seconds
          Addresses,    \* what a STUN server may report
          Nothing       \* no request, no address, a refusal

VARIABLES asked,        \* the request being served, or Nothing
          known,        \* the address learnt last, or Nothing
          learntAt,     \* when it was learnt
          learnt,       \* the address was learnt while serving `asked'
          answer,       \* the answer to the request served last
          now           \* seconds

vars == <<asked, known, learntAt, learnt, answer, now>>

Init ==
    /\ asked = Nothing /\ known = Nothing /\ answer = Nothing
    /\ learntAt = 0 /\ now = 0
    /\ learnt = FALSE

Ask(r) ==
    /\ asked = Nothing
    /\ asked' = r /\ learnt' = FALSE /\ answer' = Nothing
    /\ UNCHANGED <<known, learntAt, now>>

Learn(a) ==
    /\ asked # Nothing
    /\ known' = a /\ learntAt' = now /\ learnt' = TRUE
    /\ UNCHANGED <<asked, answer, now>>

MayServe == known # Nothing /\ (learnt \/ now - learntAt < asked.cacheTimeout)

Answer ==
    /\ asked # Nothing
    /\ answer' = Nothing \/ (MayServe /\ answer' = known)
    /\ asked' = Nothing /\ learnt' = FALSE
    /\ UNCHANGED <<known, learntAt, now>>

\* The daemon is started again: what it knew is gone.
Forget ==
    /\ asked' = Nothing /\ known' = Nothing /\ answer' = Nothing
    /\ learntAt' = 0 /\ learnt' = FALSE
    /\ UNCHANGED now

Tick == now' = now + 1 /\ UNCHANGED <<asked, known, learntAt, learnt, answer>>

Next ==
    \/ \E r \in Requests : Ask(r)
    \/ \E a \in Addresses : Learn(a)
    \/ Answer \/ Forget \/ Tick

Spec == Init /\ [][Next]_vars /\ WF_vars(Answer)
=============================================================================
