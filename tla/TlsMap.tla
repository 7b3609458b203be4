------------------------------- MODULE TlsMap -------------------------------
(***************************************************************************)
(* What thread-local values promise: tls.h and thread.h.  A key has one    *)
(* value per thread, which only that thread sets.  Deleting a key takes    *)
(* its values with it, so a new key starts without any.  A thread that     *)
(* ends has its values popped one by one, each for a destructor, and is    *)
(* done when none is left.                                                 *)
(*                                                                         *)
(* In one respect this is what the code does and not what tls.h says, in   *)
(* lines 121-122 and 138-139: the destructor will no longer be called      *)
(* after a key has been deleted.  A value that a thread has taken out of   *)
(* its table before another thread deletes the key, it destroys after      *)
(* that, and so it does with one that it resets meanwhile.                 *)
(***************************************************************************)
CONSTANTS Thread, Key, Value, Null

VARIABLES
    value,      \* the value of each key in each thread, or Null
    call,       \* the call each thread is in: none, <<"set", k, v>>,
                \* <<"reset", k, v>>, <<"dtor", k>>, or what it returns
    exiting,    \* threads whose values are being destroyed
    deleted     \* keys that have been deleted

vars == <<value, call, exiting, deleted>>

Init ==
    /\ value = [t \in Thread |-> [k \in Key |-> Null]]
    /\ call = [t \in Thread |-> <<>>]
    /\ exiting = {}
    /\ deleted = {}

Becomes(t, what) == call' = [call EXCEPT ![t] = what]

About(t, k) ==
    \/ call[t] = <<"dtor", k>>
    \/ \E op \in {"set", "reset"}, v \in Value \cup {Null} : call[t] = <<op, k, v>>

(***************************************************************************)
(* A key that is made in place of one that has been deleted is not taken   *)
(* for that one by any call.                                               *)
(***************************************************************************)
New(k) ==
    /\ k \in deleted
    /\ \A t \in Thread : ~About(t, k)
    /\ deleted' = deleted \ {k}
    /\ UNCHANGED <<value, call, exiting>>

Delete(k) ==
    /\ k \notin deleted
    /\ deleted' = deleted \cup {k}
    /\ value' = [t \in Thread |-> [value[t] EXCEPT ![k] = Null]]
    /\ UNCHANGED <<call, exiting>>

(***************************************************************************)
(* To set a value fails with -1 when the key has been deleted, and only    *)
(* then.  To set null where there is no value may be done at once.         *)
(***************************************************************************)
CallSet(t, k, v) ==
    /\ call[t] = <<>>
    /\ \/ k \in deleted /\ Becomes(t, <<"-1">>)
       \/ k \notin deleted /\ \E op \in {"set", "reset"} : Becomes(t, <<op, k, v>>)
       \/ k \notin deleted /\ v = Null /\ value[t][k] = Null /\ Becomes(t, <<"0">>)
    /\ UNCHANGED <<value, exiting, deleted>>

(***************************************************************************)
(* A call that succeeds has its effect on its own key and on nothing else; *)
(* when the key has been deleted since the call began, there is none.      *)
(***************************************************************************)
Takes(t, k, v) ==
    value' = IF k \in deleted THEN value ELSE [value EXCEPT ![t][k] = v]

Sets(t) ==
    /\ \E k \in Key, v \in Value \cup {Null} :
          call[t] = <<"set", k, v>> /\ Takes(t, k, v)
    /\ Becomes(t, <<"0">>)
    /\ UNCHANGED <<exiting, deleted>>

(***************************************************************************)
(* To reset a pointer does the same, and destroys the old value if there   *)
(* is one.  When the key has been deleted meanwhile, it may do so or not.  *)
(***************************************************************************)
Resets(t) ==
    /\ \E k \in Key, v \in Value \cup {Null} :
          /\ call[t] = <<"reset", k, v>>
          /\ Takes(t, k, v)
          /\ \/ Becomes(t, <<"dtor", k>>) /\ (value[t][k] # Null \/ k \in deleted)
             \/ Becomes(t, <<"0">>) /\ value[t][k] = Null
    /\ UNCHANGED <<exiting, deleted>>

(***************************************************************************)
(* When memory is out, a value cannot be set, but it can be taken away.    *)
(***************************************************************************)
MemoryIsOut(t) ==
    /\ \E op \in {"set", "reset"}, k \in Key, v \in Value : call[t] = <<op, k, v>>
    /\ Becomes(t, <<"-2">>)
    /\ UNCHANGED <<value, exiting, deleted>>

Returns(t) ==
    /\ call[t] \in {<<"0">>, <<"-1">>, <<"-2">>}
    /\ Becomes(t, <<>>)
    /\ UNCHANGED <<value, exiting, deleted>>

BeginExit(t) ==
    /\ t \notin exiting /\ call[t] = <<>>
    /\ exiting' = exiting \cup {t}
    /\ UNCHANGED <<value, call, deleted>>

Pop(t, k) ==
    /\ t \in exiting /\ call[t] = <<>>
    /\ value[t][k] # Null
    /\ value' = [value EXCEPT ![t][k] = Null]
    /\ Becomes(t, <<"dtor", k>>)
    /\ UNCHANGED <<exiting, deleted>>

Destroy(t) ==
    /\ \E k \in Key : call[t] = <<"dtor", k>>
    /\ Becomes(t, <<>>)
    /\ UNCHANGED <<value, exiting, deleted>>

Close(t) ==
    /\ t \in exiting /\ call[t] = <<>>
    /\ \A k \in Key : value[t][k] = Null
    /\ exiting' = exiting \ {t}
    /\ UNCHANGED <<value, call, deleted>>

Next ==
    \/ \E k \in Key : New(k) \/ Delete(k)
    \/ \E t \in Thread :
          \/ Sets(t) \/ Resets(t) \/ MemoryIsOut(t) \/ Returns(t)
          \/ BeginExit(t) \/ Destroy(t) \/ Close(t)
    \/ \E t \in Thread, k \in Key :
          Pop(t, k) \/ \E v \in Value \cup {Null} : CallSet(t, k, v)

Spec == Init /\ [][Next]_vars
=============================================================================
