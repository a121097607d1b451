-------------------------------- MODULE ModSeq --------------------------------
(***************************************************************************)
(* Práctica1/Opcional2/modlist.c: the list read through seq_file, whose    *)
(* iterator finds its place, in each call of read, by comparing the        *)
(* position with contador.  contador counts the numbers ever added: neither*)
(* remove nor cleanup decrements it.                                       *)
(*                                                                         *)
(* The module has no lock.  Here a system call is one step, as on a single *)
(* processor whose kernel is not preempted: what is modelled is how the    *)
(* calls of several processes follow one another.  The size limit of add   *)
(* is left out, but MaxAdds bounds it.                                     *)
(*                                                                         *)
(* seq_read is not part of the repository: it calls start with the position*)
(* where the last call stopped, and then show and next until the iterator  *)
(* ends or the user's buffer is full.  (Records cut in two are left out.)  *)
(***************************************************************************)
EXTENDS Selection

CONSTANTS
    Reader,     \* open files that are read
    Number,     \* the numbers that commands may name
    Garbage,    \* what show prints of the head of the list
    Rooms,      \* records that a user's buffer has room for
    MaxAdds,    \* bound on the numbers added
    MaxPos      \* bound on a reader's position

ASSUME SeqAssumption ==
    /\ Garbage \notin Number /\ Number # {}
    /\ Rooms \subseteq Nat \ {0}
    /\ MaxAdds \in Nat /\ MaxPos \in Nat

VARIABLES
    mylist,     \* the numbers of the list
    contador,
    pos,        \* *pos of each open file
    state,      \* state of each file: "closed", "open", or "eof" once read
                \* has returned 0
    out,        \* what the reader has been given since it opened the file
    undisturbed \* history: the list has not changed since then, and each read
                \* had room for all of it

vars == <<mylist, contador, pos, state, out, undisturbed>>

-----------------------------------------------------------------------------
(* Commands                                                                *)

\* Files opened before a change are disturbed by it.
Change(list) ==
    /\ mylist' = list
    /\ undisturbed' = [r \in Reader |-> undisturbed[r] /\ list = mylist]
    /\ UNCHANGED <<pos, state, out>>

Add ==
    /\ contador < MaxAdds
    /\ \E v \in Number : Change(Append(mylist, v))
    /\ contador' = contador + 1

Remove ==
    /\ mylist # << >>
    /\ \E v \in Number : Change(Among(mylist, Number \ {v}))
    /\ UNCHANGED contador

Cleanup == Change(<< >>) /\ UNCHANGED contador

-----------------------------------------------------------------------------
(* Reading                                                                 *)

\* mydrv_seq_start: the end, or the first item wherever the position is; the
\* head of the list itself if the list is empty.
AtEnd(r) == contador = pos[r]
Items == IF mylist = << >> THEN <<Garbage>> ELSE mylist

\* The records that start, show and next give to one read.
Shown(room) == SubSeq(Items, 1, IF room < Len(Items) THEN room ELSE Len(Items))

Open(r) ==
    /\ state[r] = "closed"
    /\ state' = [state EXCEPT ![r] = "open"]
    /\ pos' = [pos EXCEPT ![r] = 0]
    /\ out' = [out EXCEPT ![r] = << >>]
    /\ undisturbed' = [undisturbed EXCEPT ![r] = TRUE]
    /\ UNCHANGED <<mylist, contador>>

\* Mutant of Advance: the call of next that finds the end counts for one more.
AdvancePast(r, records) == pos[r] + Len(records) + 1

\* next advances the position once for each record.
Advance(r, records) == pos[r] + Len(records)

Read(r) ==
    /\ state[r] = "open" /\ ~AtEnd(r)
    /\ \E room \in Rooms :
          /\ pos[r] + Len(Shown(room)) <= MaxPos
          /\ pos' = [pos EXCEPT ![r] = Advance(r, Shown(room))]
          /\ out' = [out EXCEPT ![r] = @ \o Shown(room)]
          /\ undisturbed' =
                [undisturbed EXCEPT ![r] = @ /\ room >= Len(mylist)]
    /\ UNCHANGED <<mylist, contador, state>>

ReadEnds(r) ==
    /\ state[r] = "open" /\ AtEnd(r)
    /\ state' = [state EXCEPT ![r] = "eof"]
    /\ UNCHANGED <<mylist, contador, pos, out, undisturbed>>

\* The reader may close the file before its end.
Close(r) ==
    /\ state[r] # "closed"
    /\ state' = [state EXCEPT ![r] = "closed"]
    /\ pos' = [pos EXCEPT ![r] = 0]
    /\ out' = [out EXCEPT ![r] = << >>]
    /\ undisturbed' = [undisturbed EXCEPT ![r] = FALSE]
    /\ UNCHANGED <<mylist, contador>>

-----------------------------------------------------------------------------
Init ==
    /\ mylist = << >>
    /\ contador = 0
    /\ pos = [r \in Reader |-> 0]
    /\ state = [r \in Reader |-> "closed"]
    /\ out = [r \in Reader |-> << >>]
    /\ undisturbed = [r \in Reader |-> FALSE]

Next ==
    \/ Add \/ Remove \/ Cleanup
    \/ \E r \in Reader : Open(r) \/ Read(r) \/ ReadEnds(r) \/ Close(r)

Spec == Init /\ [][Next]_vars
-----------------------------------------------------------------------------
(* Properties                                                              *)

(* Every variable keeps its type; contador is at least the length of the list
   and the position never passes its bound. *)
TypeOK ==
    /\ mylist \in Seq(Number)
    /\ contador \in Len(mylist)..MaxAdds
    /\ pos \in [Reader -> 0..MaxPos]
    /\ state \in [Reader -> {"closed", "open", "eof"}]
    /\ \A r \in Reader : out[r] \in Seq(Number \cup {Garbage})
    /\ undisturbed \in [Reader -> BOOLEAN]

\* Nothing was ever removed.
OnlyAdded == contador = Len(mylist)

\* s is t, written out a whole number of times.
Turns(s, t) ==
    /\ Len(s) % Len(t) = 0
    /\ \A k \in 1..Len(s) : s[k] = t[((k - 1) % Len(t)) + 1]

(* As long as nothing was ever removed, a reader that nobody disturbs is given
   each number once, in order, and then the end of the file.  Once something
   was removed, it is given the whole list again and again, each time in order,
   and reaches the end only if the length of the list divides contador: of
   three numbers added and one removed, cat prints the other two for ever.
   (Lines 120-140.) *)
WholePasses ==
    \A r \in Reader : undisturbed[r] =>
        IF OnlyAdded
        THEN /\ out[r] \in {<< >>, mylist}
             /\ state[r] = "eof" => out[r] = mylist
        ELSE mylist # << >> =>
             /\ Turns(out[r], mylist)
             /\ state[r] = "eof" => contador % Len(mylist) = 0
=============================================================================
