---------------------------- MODULE BlinkDrvProofs -----------------------------
(***************************************************************************)
(* Proofs about BlinkDrv, for any number of processes, structures and LEDs *)
(* and any requests.  The invariant has three parts: where the driver and  *)
(* every process stand and what each then points to (Pointers), the count  *)
(* of references (RefsExact), and what the messages sent so far have left  *)
(* on the LEDs (Shown).                                                    *)
(***************************************************************************)
EXTENDS BlinkDrv, CommonLemmas

(* From probe to the kref_put of disconnect the driver works on a structure;
   it is the interface's until disconnect clears intfdata; a process is inside
   open only while the minor is registered, so never once the structure is
   about to be dropped; what it has found is then the driver's structure. *)
Pointers ==
    /\ current # NoDev <=>
          driver \in {"probe", "bound", "disconnect", "await", "drop"}
    /\ intfdata # NoDev =>
          intfdata = current /\ driver \in {"probe", "bound"}
    /\ minor => driver \in {"bound", "disconnect", "await"}
    /\ \A p \in Procs :
          /\ Opening(p) => driver \in {"bound", "disconnect", "await"}
          /\ at[p] = "found" => dev[p] = current
          /\ at[p] \in {"closed", "open"} => dev[p] = NoDev
          /\ at[p] \in {"opened", "write"} => dev[p] # NoDev

(* The first n messages of p's request are on the LEDs: each LED that some of
   them names has the colour of the last one that does. *)
Shows(p, n) ==
    \A i \in 1..n :
        LET message == Messages(asked[p])[i]
        IN  /\ message.led \in Led
            /\ \A j \in (i + 1)..n : Messages(asked[p])[j].led # message.led
            => leds[message.led] = message.color

(* A process outside write has sent nothing; one that writes alone to the
   device plugged in sees there what it has sent. *)
Shown ==
    \A p \in Procs :
        /\ at[p] # "write" => sent[p] = 0
        /\ at[p] = "write" /\ alone[p] /\ dev[p] = current => Shows(p, sent[p])

Types ==
    /\ driver \in {"none", "probe", "refused", "bound", "disconnect", "await", "drop"}
    /\ current \in Devs \cup {NoDev} /\ intfdata \in Devs \cup {NoDev}
    /\ kref \in [Devs -> Nat]
    /\ at \in [Procs -> {"closed", "open", "found", "opened", "write"}]
    /\ dev \in [Procs -> Devs \cup {NoDev}]

WriteTypes ==
    /\ present \in BOOLEAN /\ minor \in BOOLEAN
    /\ asked \in [Procs -> Requests \cup {<<>>}]
    /\ sent \in [Procs -> Nat]
    /\ \A p \in Procs : sent[p] <= Len(Messages(asked[p]))
    /\ leds \in [Led -> Colors] /\ alone \in [Procs -> BOOLEAN]

Inv == Types /\ WriteTypes /\ Pointers /\ RefsExact /\ Shown

-----------------------------------------------------------------------------
(* The files of a structure                                                *)

(* The files that hold a structure are finitely many. *)
LEMMA FilesFinite ==
    ASSUME NEW d \in Devs
    PROVE  /\ IsFiniteSet(Files(d)) /\ Cardinality(Files(d)) \in Nat
           /\ Cardinality(Files(d)) <= Cardinality(Procs)
           /\ Cardinality(Procs) \in Nat
<1>1. Files(d) \subseteq Procs
  BY DEF Files
<1> QED BY <1>1, BlinkAssumption, FS_Subset, FS_CardinalityType

(* A structure with a file has references. *)
LEMMA FileCounts ==
    ASSUME NEW d \in Devs, NEW p \in Files(d)
    PROVE  Cardinality(Files(d)) > 0
<1>1. Cardinality(Files(d)) # 0
  BY FilesFinite, FS_EmptySet
<1> QED BY <1>1, FilesFinite

(* A count is kept by every step that changes neither the counts, nor who
   holds what, nor the structure the driver works on. *)
LEMMA RefsStay ==
    ASSUME RefsExact, UNCHANGED <<kref, current>>,
           \A d \in Devs : Files(d)' = Files(d)
    PROVE  RefsExact'
BY DEF RefsExact
-----------------------------------------------------------------------------
(* Messages                                                                *)

(* A request is a sequence of tokens. *)
LEMMA RequestType ==
    ASSUME NEW tokens \in Requests \cup {<<>>}
    PROVE  tokens \in Seq([led : Nat, color : Colors \cup {Same}])
<1> DEFINE T == [led : Nat, color : Colors \cup {Same}]
<1>1. Requests \subseteq Seq(T)
  BY BlinkAssumption
<1>2. <<>> \in Seq(T)
  BY EmptySeq
<1> HIDE DEF T
<1>3. tokens \in Seq(T)
  BY <1>1, <1>2
<1> QED BY <1>3 DEF T

(* The colour in force at a token is a colour. *)
LEMMA InForceType ==
    ASSUME NEW tokens \in Requests \cup {<<>>}, NEW i \in 1..Len(tokens)
    PROVE  InForce(tokens, i) \in Colors
<1>1. tokens \in Seq([led : Nat, color : Colors \cup {Same}])
  BY RequestType
<1> DEFINE given == {j \in 1..i : tokens[j].color # Same}
<1>2. CASE given = {}
  BY <1>2, BlinkAssumption DEF InForce
<1>3. CASE given # {}
  <2>1. i \in Nat /\ i <= Len(tokens) /\ Len(tokens) \in Nat
    BY <1>1
  <2>2. \E j \in given : \A k \in given : k <= j
    <3>1. given \in SUBSET (1..i)
      OBVIOUS
    <3> HIDE DEF given
    <3> QED BY <1>3, <2>1, <3>1, GreatestPosition
  <2> DEFINE last == CHOOSE j \in given : \A k \in given : k <= j
  <2>3. last \in given
    <3> HIDE DEF given
    <3> QED BY <2>2
  <2>4. last \in 1..Len(tokens) /\ tokens[last].color # Same
    <3> HIDE DEF last
    <3> QED BY <2>1, <2>3
  <2>5. tokens[last] \in [led : Nat, color : Colors \cup {Same}]
    <3> HIDE DEF last
    <3> QED BY <1>1, <2>4, ElementOfSeq
  <2>6. tokens[last].color \in Colors
    <3> HIDE DEF last
    <3> QED BY <2>4, <2>5
  <2>7. InForce(tokens, i) = tokens[last].color
    BY <1>3 DEF InForce
  <2> QED BY <2>6, <2>7
<1> QED BY <1>2, <1>3

(* What is sent for a request: all the LEDs off, then its tokens in turn. *)
LEMMA MessagesAre ==
    ASSUME NEW tokens \in Requests \cup {<<>>}
    PROVE  /\ Len(tokens) \in Nat
           /\ Len(Messages(tokens)) = NR_LEDS + Len(tokens)
           /\ \A i \in 1..NR_LEDS :
                 Messages(tokens)[i] = [led |-> i - 1, color |-> 0]
           /\ \A i \in 1..Len(tokens) :
                 Messages(tokens)[NR_LEDS + i]
                    = [led |-> tokens[i].led, color |-> InForce(tokens, i)]
           /\ \A i \in 1..Len(Messages(tokens)) :
                 Messages(tokens)[i].color \in Colors
<1> DEFINE M == [led : Nat, color : Colors]
<1>1. tokens \in Seq([led : Nat, color : Colors \cup {Same}])
  BY RequestType
<1>2. Len(tokens) \in Nat /\ NR_LEDS \in Nat
  BY <1>1, BlinkAssumption
<1>3. /\ Clearing \in Seq(M) /\ Len(Clearing) = NR_LEDS
      /\ \A i \in 1..NR_LEDS : Clearing[i] = [led |-> i - 1, color |-> 0]
  <2>1. \A i \in 1..NR_LEDS : [led |-> i - 1, color |-> 0] \in M
    BY BlinkAssumption
  <2>2. Clearing \in [1..NR_LEDS -> M]
    BY <2>1 DEF Clearing
  <2>3. Clearing \in Seq(M) /\ Len(Clearing) = NR_LEDS
    <3> HIDE DEF M
    <3> QED BY <1>2, <2>2, IsSequence
  <2> QED BY <2>3 DEF Clearing
<1>4. /\ Painting(tokens) \in Seq(M) /\ Len(Painting(tokens)) = Len(tokens)
      /\ \A i \in 1..Len(tokens) :
            Painting(tokens)[i]
               = [led |-> tokens[i].led, color |-> InForce(tokens, i)]
  <2>1. \A i \in 1..Len(tokens) :
           [led |-> tokens[i].led, color |-> InForce(tokens, i)] \in M
    <3> TAKE i \in 1..Len(tokens)
    <3>1. tokens[i] \in [led : Nat, color : Colors \cup {Same}]
      BY <1>1, ElementOfSeq
    <3>2. InForce(tokens, i) \in Colors
      BY InForceType
    <3> QED BY <3>1, <3>2
  <2>2. Painting(tokens) \in [1..Len(tokens) -> M]
    BY <2>1 DEF Painting
  <2>3. Painting(tokens) \in Seq(M) /\ Len(Painting(tokens)) = Len(tokens)
    <3> HIDE DEF M
    <3> QED BY <1>2, <2>2, IsSequence
  <2> QED BY <2>3 DEF Painting
<1>5. /\ Messages(tokens) \in Seq(M)
      /\ Len(Messages(tokens)) = NR_LEDS + Len(tokens)
      /\ \A i \in 1..(NR_LEDS + Len(tokens)) :
            Messages(tokens)[i] = IF i <= NR_LEDS
                                  THEN Clearing[i]
                                  ELSE Painting(tokens)[i - NR_LEDS]
  <2>1. Clearing \in Seq(M) /\ Len(Clearing) = NR_LEDS
    BY <1>3
  <2>2. Painting(tokens) \in Seq(M) /\ Len(Painting(tokens)) = Len(tokens)
    BY <1>4
  <2> DEFINE c == Clearing
             t == Painting(tokens)
  <2> HIDE DEF M
  <2>3. /\ c \o t \in Seq(M) /\ Len(c \o t) = Len(c) + Len(t)
        /\ \A i \in 1..(Len(c) + Len(t)) :
              (c \o t)[i] = IF i <= Len(c) THEN c[i] ELSE t[i - Len(c)]
    <3> HIDE DEF c, t
    <3> QED BY <2>1, <2>2, ConcatProperties DEF c, t
  <2> QED BY <2>1, <2>2, <2>3 DEF Messages
<1>6. \A i \in 1..Len(Messages(tokens)) : Messages(tokens)[i] \in M
  <2> HIDE DEF M
  <2> QED BY <1>5, ElementOfSeq
<1>7. \A i \in 1..Len(tokens) :
         Messages(tokens)[NR_LEDS + i] = Painting(tokens)[i]
  <2> TAKE i \in 1..Len(tokens)
  <2>1. /\ NR_LEDS + i \in 1..(NR_LEDS + Len(tokens))
        /\ ~(NR_LEDS + i <= NR_LEDS) /\ (NR_LEDS + i) - NR_LEDS = i
    BY <1>2
  <2> QED BY <1>5, <2>1
<1>8. \A i \in 1..NR_LEDS : Messages(tokens)[i] = Clearing[i]
  BY <1>2, <1>5
<1> QED BY <1>2, <1>3, <1>4, <1>5, <1>6, <1>7, <1>8
-----------------------------------------------------------------------------
(* probe, disconnect, open and release                                     *)

(* The initial state: nothing is plugged in and every file is closed. *)
LEMMA InitInv == Init => Inv
<1> SUFFICES ASSUME Init PROVE Inv
  OBVIOUS
<1>1. Types
  BY DEF Init, Types
<1>2. WriteTypes
  <2>1. Len(<<>>) = 0 /\ Len(Messages(<<>>)) = NR_LEDS + Len(<<>>)
    BY MessagesAre
  <2>2. 0 <= Len(Messages(<<>>))
    BY <2>1, BlinkAssumption
  <2>3. leds \in [Led -> Colors]
    BY BlinkAssumption DEF Init
  <2>4. asked \in [Procs -> Requests \cup {<<>>}] /\ sent \in [Procs -> Nat]
    BY DEF Init
  <2> QED BY <2>2, <2>3, <2>4 DEF Init, WriteTypes
<1>3. Pointers
  BY DEF Init, Pointers, Opening
<1>4. RefsExact
  <2>1. ASSUME NEW d \in Devs PROVE Files(d) = {}
    BY DEF Init, Files
  <2>2. \A d \in Devs : Cardinality(Files(d)) = 0
    BY <2>1, FS_EmptySet
  <2> QED BY <2>2, BlinkAssumption DEF Init, RefsExact
<1>5. Shown
  BY DEF Init, Shown
<1> QED BY <1>1, <1>2, <1>3, <1>4, <1>5 DEF Inv

(* The driver's own steps keep count and pointers. *)
LEMMA DriverKeepsRefs ==
    ASSUME Types, Pointers, RefsExact, Probe \/ Unplug \/ DriverStep
    PROVE  Types' /\ Pointers' /\ RefsExact'
<1>1. CASE Probe
  <2>1. PICK d \in Devs : /\ kref[d] = 0 /\ kref' = [kref EXCEPT ![d] = 1]
                          /\ current' = d /\ intfdata' = d
    BY <1>1 DEF Probe
  <2>2. current = NoDev
    BY <1>1 DEF Probe, Pointers
  <2>3. Cardinality(Files(d)) = 0
    BY <2>1, <2>2, FilesFinite, BlinkAssumption DEF RefsExact
  <2>4. \A e \in Devs : Files(e)' = Files(e)
    BY <1>1 DEF Probe, Files
  <2>5. Types'
    BY <1>1, <2>1 DEF Probe, Types
  <2>6. Pointers'
    BY <1>1, <2>1, BlinkAssumption DEF Probe, Pointers, Types, Opening
  <2>7. RefsExact'
    BY <2>1, <2>2, <2>3, <2>4, BlinkAssumption DEF RefsExact, Types
  <2> QED BY <2>5, <2>6, <2>7
<1>2. CASE Unplug
  <2>1. Types' /\ Pointers'
    BY <1>2 DEF Unplug, Pointers, Types, Opening
  <2>2. RefsExact'
    BY <1>2, RefsStay DEF Unplug, Files
  <2> QED BY <2>1, <2>2
<1>3. CASE Register \/ Disconnect \/ AskMinor
  <2>1. Types' /\ Pointers'
    BY <1>3 DEF Register, Disconnect, AskMinor, Pointers, Types, Opening
  <2>2. RefsExact'
    BY <1>3, RefsStay DEF Register, Disconnect, AskMinor, Files
  <2> QED BY <2>1, <2>2
<1>4. CASE Deregister
  <2>1. Types' /\ Pointers'
    BY <1>4 DEF Deregister, Pointers, Types, Opening
  <2>2. RefsExact'
    BY <1>4, RefsStay DEF Deregister, Files
  <2> QED BY <2>1, <2>2
<1>5. CASE ProbeFails \/ Drop
  <2>1. /\ driver \in {"probe", "drop"} /\ current \in Devs
        /\ kref' = [kref EXCEPT ![current] = @ - 1] /\ current' = NoDev
        /\ UNCHANGED <<at, dev>>
    BY <1>5 DEF ProbeFails, Drop, Put, Pointers, Types
  <2>2. kref[current] = Cardinality(Files(current)) + 1
    BY <2>1 DEF RefsExact
  <2>3. \A e \in Devs : Files(e)' = Files(e)
    BY <2>1 DEF Files
  <2>4. Types'
    BY <1>5, <2>1, <2>2, FilesFinite DEF ProbeFails, Drop, Types
  <2>5. Pointers'
    BY <1>5, <2>1, BlinkAssumption DEF ProbeFails, Drop, Pointers, Opening
  <2>6. RefsExact'
    BY <2>1, <2>2, <2>3, FilesFinite, BlinkAssumption DEF RefsExact, Types
  <2> QED BY <2>4, <2>5, <2>6
<1> QED BY <1>1, <1>2, <1>3, <1>4, <1>5 DEF DriverStep

(* Opening, writing and closing a file keep count and pointers. *)
LEMMA FileKeepsRefs ==
    ASSUME Types, Pointers, RefsExact,
           NEW p \in Procs,
           CallOpen(p) \/ CallWrite(p) \/ Release(p) \/ FileStep(p)
    PROVE  Types' /\ Pointers' /\ RefsExact'
<1>1. CASE CallOpen(p) \/ FindNothing(p)
  <2>1. Types' /\ Pointers'
    BY <1>1 DEF CallOpen, FindNothing, Goto, usb, Pointers, Types, Opening
  <2>2. RefsExact'
    BY <1>1, RefsStay DEF CallOpen, FindNothing, Goto, usb, Files, Types
  <2> QED BY <2>1, <2>2
<1>2. CASE Find(p)
  <2>1. Types' /\ Pointers'
    BY <1>2 DEF Find, Goto, usb, Pointers, Types, Opening
  <2>2. RefsExact'
    BY <1>2, RefsStay DEF Find, Goto, usb, Files, Types
  <2> QED BY <2>1, <2>2
<1>3. CASE Open(p)
  <2>1. PICK d \in Devs : d = dev[p] /\ d = current /\ d # NoDev
    BY <1>3, BlinkAssumption DEF Open, Pointers, Types, Opening
  <2>2. Types' /\ Pointers'
    BY <1>3, <2>1 DEF Open, Get, Goto, usb, Pointers, Types, Opening
  <2>3. /\ p \notin Files(d) /\ Files(d)' = Files(d) \cup {p}
        /\ \A e \in Devs \ {d} : Files(e)' = Files(e)
    BY <1>3, <2>1 DEF Open, Goto, Files, Types
  <2>4. Cardinality(Files(d)') = Cardinality(Files(d)) + 1
    BY <2>1, <2>3, FilesFinite, FS_AddElement
  <2>5. kref' = [kref EXCEPT ![d] = @ + 1] /\ current' = current
    BY <1>3, <2>1 DEF Open, Get, usb
  <2>6. RefsExact'
    BY <2>1, <2>3, <2>4, <2>5, FilesFinite DEF RefsExact, Types
  <2> QED BY <2>2, <2>6
<1>4. CASE Release(p)
  <2>1. PICK d \in Devs : d = dev[p] /\ p \in Files(d)
    BY <1>4, BlinkAssumption DEF Release, Pointers, Types, Files
  <2>2. /\ Files(d)' = Files(d) \ {p}
        /\ \A e \in Devs \ {d} : Files(e)' = Files(e)
    BY <1>4, <2>1, BlinkAssumption DEF Release, Goto, Files, Types
  <2>3. Cardinality(Files(d)') = Cardinality(Files(d)) - 1
    BY <2>1, <2>2, FilesFinite, FS_RemoveElement
  <2>4. kref' = [kref EXCEPT ![d] = @ - 1] /\ current' = current
    BY <1>4, <2>1 DEF Release, Put, usb
  <2>5. kref[d] > 0
    BY <2>1, FileCounts, FilesFinite DEF RefsExact
  <2>6. Types' /\ Pointers'
    BY <1>4, <2>1, <2>4, <2>5 DEF Release, Goto, usb, Pointers, Types, Opening
  <2>7. RefsExact'
    <3>1. \A e \in Devs : kref'[e] = IF e = d THEN kref[e] - 1 ELSE kref[e]
      BY <2>4 DEF Types
    <3>2. ASSUME NEW e \in Devs
          PROVE  kref'[e] = Cardinality(Files(e)')
                               + (IF e = current THEN 1 ELSE 0)
      <4>1. /\ Cardinality(Files(e)) \in Nat
            /\ kref[e] = Cardinality(Files(e)) + (IF e = current THEN 1 ELSE 0)
        BY FilesFinite DEF RefsExact
      <4>2. CASE e = d
        BY <2>3, <3>1, <4>1, <4>2
      <4>3. CASE e # d
        BY <2>2, <3>1, <4>1, <4>3
      <4> QED BY <4>2, <4>3
    <3> QED BY <2>4, <3>2 DEF RefsExact
  <2> QED BY <2>6, <2>7
<1>5. CASE CallWrite(p) \/ Skip(p) \/ Send(p) \/ SendFails(p) \/ EndWrite(p)
  <2>1. /\ UNCHANGED <<usb, kref, dev>>
        /\ \/ UNCHANGED at
           \/ at[p] = "opened" /\ Goto(p, "write")
           \/ at[p] = "write" /\ Goto(p, "opened")
    BY <1>5 DEF CallWrite, Skip, Send, SendFails, EndWrite, Finish
  <2>2. Types' /\ Pointers'
    BY <2>1 DEF Goto, usb, Pointers, Types, Opening
  <2>3. RefsExact'
    BY <2>1, RefsStay DEF Goto, usb, Files, Types
  <2> QED BY <2>2, <2>3
<1> QED BY <1>1, <1>2, <1>3, <1>4, <1>5 DEF FileStep
-----------------------------------------------------------------------------
(* What is on the LEDs                                                     *)

(* The number of messages due to a process is a natural number. *)
LEMMA DueType ==
    ASSUME WriteTypes, NEW p \in Procs
    PROVE  /\ asked[p] \in Requests \cup {<<>>}
           /\ Len(Messages(asked[p])) \in Nat
           /\ sent[p] \in Nat /\ sent[p] <= Len(Messages(asked[p]))
<1>1. asked[p] \in Requests \cup {<<>>}
  BY DEF WriteTypes
<1>2. Len(Messages(asked[p])) = NR_LEDS + Len(asked[p]) /\ Len(asked[p]) \in Nat
  BY <1>1, MessagesAre
<1> QED BY <1>1, <1>2, BlinkAssumption DEF WriteTypes

(* A request with no message sent yet is within its bounds. *)
LEMMA NothingDue ==
    ASSUME NEW tokens \in Requests \cup {<<>>}
    PROVE  0 <= Len(Messages(tokens))
<1>1. Len(Messages(tokens)) = NR_LEDS + Len(tokens) /\ Len(tokens) \in Nat
  BY MessagesAre
<1> QED BY <1>1, BlinkAssumption

(* What one process has sent still shows after a step that changes neither
   the LEDs nor its request. *)
LEMMA ShowsStays ==
    ASSUME NEW q \in Procs, NEW n, Shows(q, n),
           leds' = leds, asked'[q] = asked[q]
    PROVE  Shows(q, n)'
BY DEF Shows

(* probe, disconnect and the rest of the driver leave the LEDs alone, or light
   up those of a device that nobody has open. *)
LEMMA DriverKeepsShown ==
    ASSUME Inv, Probe \/ Unplug \/ DriverStep
    PROVE  WriteTypes' /\ Shown'
<1> USE DEF Inv
<1>1. CASE Probe
  <2>1. WriteTypes'
    BY <1>1 DEF Probe, writing, WriteTypes
  <2>2. ASSUME NEW p \in Procs, at[p] = "write", dev[p] = current'
        PROVE  FALSE
    <3>1. current' \in Devs /\ kref[current'] = 0 /\ current = NoDev
      BY <1>1 DEF Probe, Pointers
    <3>2. p \in Files(current')
      BY <2>2 DEF Files
    <3>3. PICK d \in Devs : d = current'
      BY <3>1
    <3>4. Cardinality(Files(d)) > 0 /\ kref[d] = 0
      BY <3>1, <3>2, <3>3, FileCounts
    <3> QED BY <3>4, FilesFinite DEF RefsExact
  <2>3. Shown'
    BY <1>1, <2>2 DEF Probe, writing, Shown
  <2> QED BY <2>1, <2>3
<1>2. CASE Unplug \/ DriverStep
  <2>1. /\ UNCHANGED <<at, dev, writing, leds>>
        /\ current' = current \/ current' = NoDev
        /\ present' \in BOOLEAN /\ minor' \in BOOLEAN
    BY <1>2 DEF Unplug, DriverStep, Register, ProbeFails, Disconnect, AskMinor,
                Deregister, Drop, WriteTypes
  <2>2. WriteTypes'
    BY <2>1 DEF writing, WriteTypes
  <2>3. ASSUME NEW p \in Procs
        PROVE  /\ at'[p] # "write" => sent'[p] = 0
               /\ at'[p] = "write" /\ alone'[p] /\ dev'[p] = current'
                     => Shows(p, sent[p])'
    BY <2>1, ShowsStays DEF writing, Shown, Pointers
  <2> QED BY <2>1, <2>2, <2>3 DEF Shown, writing
<1> QED BY <1>1, <1>2

(* A message more on the LEDs, or one that names none of them. *)
LEMMA OneMore ==
    ASSUME WriteTypes, NEW p \in Procs, NEW n \in Nat, n = sent[p],
           Shows(p, n), n < Len(Messages(asked[p])), asked'[p] = asked[p],
           IF Turn(p).led \in Led
           THEN leds' = [leds EXCEPT ![Turn(p).led] = Turn(p).color]
           ELSE leds' = leds
    PROVE  Shows(p, n + 1)'
<1>1. PICK M : M = Messages(asked[p])
  OBVIOUS
<1>2. Turn(p) = M[n + 1] /\ Messages(asked[p])' = M
  BY <1>1 DEF Turn
<1>3. leds \in [Led -> Colors]
  BY DEF WriteTypes
<1>4. ASSUME NEW i \in 1..(n + 1), M[i].led \in Led,
             \A j \in (i + 1)..(n + 1) : M[j].led # M[i].led
      PROVE  leds'[M[i].led] = M[i].color
  <2>1. CASE i = n + 1
    BY <1>2, <1>3, <1>4, <2>1
  <2>2. CASE i # n + 1
    <3>1. i \in 1..n /\ n + 1 \in (i + 1)..(n + 1)
      BY <2>2
    <3>2. \A j \in (i + 1)..n : j \in (i + 1)..(n + 1)
      BY <3>1
    <3>3. leds[M[i].led] = M[i].color
      BY <1>1, <1>4, <3>1, <3>2 DEF Shows
    <3>4. M[n + 1].led # M[i].led
      BY <1>4, <3>1
    <3> QED BY <1>2, <1>3, <1>4, <3>3, <3>4
  <2> QED BY <2>1, <2>2
<1> QED BY <1>2, <1>4 DEF Shows

(* Opening, writing and closing: only a message sent changes the LEDs, and
   after it no other process writes alone. *)
LEMMA FileKeepsShown ==
    ASSUME Inv, NEW p \in Procs,
           CallOpen(p) \/ CallWrite(p) \/ Release(p) \/ FileStep(p)
    PROVE  WriteTypes' /\ Shown'
<1> USE DEF Inv
<1> DEFINE Good(q) ==
              /\ at[q] # "write" => sent[q] = 0
              /\ at[q] = "write" /\ alone[q] /\ dev[q] = current
                    => Shows(q, sent[q])
<1>1. \A q \in Procs : Good(q)
  BY DEF Shown
<1>2. present \in BOOLEAN /\ minor \in BOOLEAN /\ UNCHANGED usb
  BY DEF WriteTypes, CallOpen, CallWrite, Release, FileStep, FindNothing, Find,
         Open, Skip, Send, SendFails, EndWrite
<1>3. CASE CallOpen(p) \/ FindNothing(p) \/ Find(p) \/ Open(p) \/ Release(p)
  <2>1. /\ UNCHANGED <<current, writing, leds>>
        /\ at[p] # "write" /\ at'[p] # "write"
        /\ \A q \in Procs \ {p} : at'[q] = at[q] /\ dev'[q] = dev[q]
    BY <1>3 DEF CallOpen, FindNothing, Find, Open, Release, Goto, usb, Types
  <2>2. WriteTypes'
    BY <1>2, <2>1 DEF WriteTypes, writing, usb
  <2>3. ASSUME NEW q \in Procs PROVE Good(q)'
    <3>1. CASE q = p
      BY <1>1, <2>1, <3>1 DEF writing
    <3>2. CASE q # p
      BY <1>1, <2>1, <3>2, ShowsStays DEF writing
    <3> QED BY <3>1, <3>2
  <2> QED BY <2>2, <2>3 DEF Shown
<1>4. CASE CallWrite(p) \/ SendFails(p) \/ EndWrite(p)
  <2>1. /\ UNCHANGED <<current, dev, leds>>
        /\ sent' \in [Procs -> Nat] /\ sent'[p] = 0
        /\ asked' \in [Procs -> Requests \cup {<<>>}]
        /\ alone' \in [Procs -> BOOLEAN]
        /\ \A q \in Procs \ {p} : /\ sent'[q] = sent[q] /\ asked'[q] = asked[q]
                                  /\ alone'[q] = alone[q] /\ at'[q] = at[q]
    <3>1. CASE CallWrite(p)
      <4>1. PICK tokens \in Requests : asked' = [asked EXCEPT ![p] = tokens]
        BY <3>1 DEF CallWrite
      <4>2. sent' = sent /\ sent[p] = 0
        BY <1>1, <3>1 DEF CallWrite
      <4> QED BY <3>1, <4>1, <4>2 DEF CallWrite, Goto, usb, Types, WriteTypes
    <3>2. CASE SendFails(p) \/ EndWrite(p)
      <4>1. PICK none \in {<<>>} : asked' = [asked EXCEPT ![p] = none]
        BY <3>2 DEF SendFails, EndWrite, Finish
      <4>2. asked' \in [Procs -> Requests \cup {<<>>}]
        BY <4>1 DEF WriteTypes
      <4>3. sent' = [sent EXCEPT ![p] = 0] /\ alone' = [alone EXCEPT ![p] = FALSE]
        BY <3>2 DEF SendFails, EndWrite, Finish
      <4>4. UNCHANGED <<current, dev, leds>> /\ at' = [at EXCEPT ![p] = "opened"]
        BY <3>2 DEF SendFails, EndWrite, Finish, Goto, usb
      <4> QED BY <4>1, <4>2, <4>3, <4>4 DEF Types, WriteTypes
    <3> QED BY <1>4, <3>1, <3>2
  <2>2. WriteTypes'
    BY <1>2, <2>1, NothingDue DEF WriteTypes, usb
  <2>3. ASSUME NEW q \in Procs PROVE Good(q)'
    <3>1. CASE q = p
      BY <2>1, <3>1 DEF Shows
    <3>2. CASE q # p
      BY <1>1, <2>1, <3>2, ShowsStays
    <3> QED BY <3>1, <3>2
  <2> QED BY <2>2, <2>3 DEF Shown
<1>5. CASE Skip(p) \/ Send(p)
  <2>1. PICK n \in Nat : n = sent[p]
    BY DEF WriteTypes
  <2>2. /\ UNCHANGED <<current, at, dev, asked>>
        /\ at[p] = "write" /\ n < Len(Messages(asked[p]))
        /\ sent' = [sent EXCEPT ![p] = n + 1]
        /\ alone' \in [Procs -> BOOLEAN] /\ (alone'[p] => alone[p])
    BY <1>5, <2>1 DEF Skip, Send, usb, WriteTypes
  <2>3. IF Turn(p).led \in Led
        THEN /\ leds' = [leds EXCEPT ![Turn(p).led] = Turn(p).color]
             /\ \A q \in Procs \ {p} : ~ alone'[q]
        ELSE leds' = leds /\ alone' = alone
    BY <1>5 DEF Skip, Send
  <2>4. WriteTypes'
    <3>1. Turn(p).color \in Colors
      <4>1. Len(Messages(asked[p])) \in Nat /\ n + 1 \in 1..Len(Messages(asked[p]))
        BY <2>2, DueType
      <4> QED BY <2>1, <4>1, DueType, MessagesAre DEF Turn
    <3>2. leds' \in [Led -> Colors]
      BY <2>3, <3>1 DEF WriteTypes
    <3>3. \A q \in Procs : sent'[q] <= Len(Messages(asked'[q]))
      BY <2>1, <2>2, DueType DEF WriteTypes
    <3>4. sent' \in [Procs -> Nat]
      BY <2>2 DEF WriteTypes
    <3> QED BY <1>2, <2>2, <3>2, <3>3, <3>4 DEF WriteTypes, usb
  <2>5. ASSUME NEW q \in Procs PROVE Good(q)'
    <3>1. CASE q = p
      <4>1. sent'[p] = n + 1 /\ at'[p] = "write"
        BY <2>2 DEF WriteTypes
      <4>2. ASSUME alone'[p], dev'[p] = current' PROVE Shows(p, n + 1)'
        <5>1. Shows(p, n)
          BY <1>1, <2>1, <2>2, <4>2
        <5> QED BY <2>1, <2>2, <2>3, <5>1, OneMore
      <4>3. Shows(p, n + 1)' => Shows(p, sent[p])'
        BY <4>1 DEF Shows
      <4> QED BY <3>1, <4>1, <4>2, <4>3
    <3>2. CASE q # p
      BY <1>1, <2>2, <2>3, <3>2, ShowsStays DEF WriteTypes
    <3> QED BY <3>1, <3>2
  <2> QED BY <2>4, <2>5 DEF Shown
<1> QED BY <1>3, <1>4, <1>5 DEF FileStep
-----------------------------------------------------------------------------
(* The theorems                                                            *)

(* Every step of the driver and of the processes keeps the invariant. *)
LEMMA NextInv == Inv /\ [Next]_vars => Inv'
<1> SUFFICES ASSUME Inv, [Next]_vars PROVE Inv'
  OBVIOUS
<1>1. CASE Probe \/ Unplug \/ DriverStep
  BY <1>1, DriverKeepsRefs, DriverKeepsShown DEF Inv
<1>2. ASSUME NEW p \in Procs,
             CallOpen(p) \/ CallWrite(p) \/ Release(p) \/ FileStep(p)
      PROVE  Inv'
  BY <1>2, FileKeepsRefs, FileKeepsShown DEF Inv
<1>3. CASE UNCHANGED vars
  <2>1. Types' /\ WriteTypes' /\ Pointers'
    BY <1>3 DEF vars, usb, writing, Inv, Types, WriteTypes, Pointers, Opening
  <2>2. RefsExact'
    BY <1>3, RefsStay DEF vars, usb, Inv, Files
  <2>3. Shown'
    BY <1>3 DEF vars, usb, writing, Inv, Shown, Shows
  <2> QED BY <2>1, <2>2, <2>3 DEF Inv
<1> QED BY <1>1, <1>2, <1>3 DEF Next

(* The invariant holds in every reachable state. *)
THEOREM InvHolds == Spec => []Inv
<1> QED BY InitInv, NextInv, PTL DEF Spec

(* Every variable keeps its type; a structure has at most one reference for
   each process and one for the driver. *)
THEOREM TypeCorrect == Spec => []TypeOK
<1>1. ASSUME Inv PROVE TypeOK
  <2>1. ASSUME NEW d \in Devs PROVE kref[d] \in 0..(Cardinality(Procs) + 1)
    BY <1>1, FilesFinite DEF Inv, RefsExact
  <2>2. kref \in [Devs -> 0..(Cardinality(Procs) + 1)]
    BY <1>1, <2>1 DEF Inv, Types
  <2>3. \A p \in Procs : sent[p] \in 0..Len(Messages(asked[p]))
    BY <1>1, DueType DEF Inv
  <2> QED BY <1>1, <2>2, <2>3 DEF Inv, Types, WriteTypes, TypeOK
<1>2. Inv => TypeOK
  BY <1>1
<1> QED BY <1>2, InvHolds, PTL

(* One reference for each open file and one for the driver, whatever the order
   of disconnect and of the last close. *)
THEOREM References == Spec => []RefsExact
<1> QED BY InvHolds, PTL DEF Inv

(* No structure is freed while a process or the driver may still touch it: the
   one that open has found, not yet counted, is the driver's, because
   deregistering waits for open to end. *)
THEOREM NobodyUsesFreed == Spec => []NoUseAfterFree
<1>1. ASSUME Inv PROVE NoUseAfterFree
  <2>1. ASSUME NEW d \in Devs, d = current PROVE kref[d] > 0
    BY <1>1, <2>1, FilesFinite DEF Inv, RefsExact
  <2>2. current # NoDev => kref[current] > 0
    BY <1>1, <2>1 DEF Inv, Types
  <2>3. intfdata # NoDev => kref[intfdata] > 0
    BY <1>1, <2>2 DEF Inv, Pointers
  <2>4. ASSUME NEW p \in Procs, dev[p] # NoDev PROVE kref[dev[p]] > 0
    <3>1. CASE at[p] = "found"
      BY <1>1, <2>2, <2>4, <3>1 DEF Inv, Pointers
    <3>2. CASE at[p] \in {"opened", "write"}
      <4>1. dev[p] \in Devs /\ p \in Files(dev[p])
        BY <1>1, <2>4, <3>2 DEF Inv, Types, Files
      <4>2. PICK d \in Devs : d = dev[p]
        BY <4>1
      <4>3. Cardinality(Files(d)) > 0
        BY <4>1, <4>2, FileCounts
      <4>4. kref[d] > 0
        BY <1>1, <4>3, FilesFinite DEF Inv, RefsExact
      <4> QED BY <4>2, <4>4
    <3> QED BY <1>1, <2>4, <3>1, <3>2 DEF Inv, Types, Pointers
  <2> QED BY <2>2, <2>3, <2>4 DEF NoUseAfterFree
<1>2. Inv => NoUseAfterFree
  BY <1>1
<1> QED BY <1>2, InvHolds, PTL

(* An undisturbed write shows what it asked for: of the messages that name a
   LED the last is that of the last token that names it, or the one that turned
   it off when no token does. *)
THEOREM WritesShow == Spec => []WriteExact
<1>1. ASSUME Inv, NEW p \in Procs, at[p] = "write",
             sent[p] = Len(Messages(asked[p])), alone[p], dev[p] = current
      PROVE  leds = Painted(asked[p])
  <2>1. PICK tokens \in Requests \cup {<<>>} : tokens = asked[p]
    BY <1>1, DueType DEF Inv
  <2>2. PICK M : M = Messages(tokens)
    OBVIOUS
  <2> DEFINE n == Len(tokens)
  <2>3. /\ n \in Nat /\ NR_LEDS \in Nat \ {0} /\ sent[p] = NR_LEDS + n
        /\ \A i \in 1..NR_LEDS : M[i].led = i - 1 /\ M[i].color = 0
        /\ \A i \in 1..n : /\ M[NR_LEDS + i].led = tokens[i].led
                           /\ M[NR_LEDS + i].color = InForce(tokens, i)
    <3>1. n \in Nat /\ NR_LEDS \in Nat \ {0} /\ sent[p] = NR_LEDS + n
      BY <1>1, <2>1, <2>2, MessagesAre, BlinkAssumption
    <3>2. ASSUME NEW i \in 1..NR_LEDS
          PROVE  M[i].led = i - 1 /\ M[i].color = 0
      <4>1. M[i] = [led |-> i - 1, color |-> 0]
        BY <2>2, MessagesAre
      <4> QED BY <4>1
    <3>3. ASSUME NEW i \in 1..n
          PROVE  /\ M[NR_LEDS + i].led = tokens[i].led
                 /\ M[NR_LEDS + i].color = InForce(tokens, i)
      <4>1. M[NR_LEDS + i]
               = [led |-> tokens[i].led, color |-> InForce(tokens, i)]
        BY <2>2, MessagesAre
      <4> QED BY <4>1
    <3> QED BY <3>1, <3>2, <3>3
  <2>4. \A i \in 1..(NR_LEDS + n) :
           /\ M[i].led \in Led
           /\ \A j \in (i + 1)..(NR_LEDS + n) : M[j].led # M[i].led
           => leds[M[i].led] = M[i].color
    <3>1. Shows(p, NR_LEDS + n)
      BY <1>1, <2>3 DEF Inv, Shown
    <3> QED BY <2>1, <2>2, <3>1 DEF Shows
  <2>5. ASSUME NEW l \in Led PROVE leds[l] = Painted(tokens)[l]
    <3> DEFINE named == {i \in 1..n : tokens[i].led = l}
    <3>1. l \in Nat /\ l < NR_LEDS
      BY <2>3 DEF Led
    <3>2. \A j \in 1..NR_LEDS : M[j].led = j - 1
      BY <2>3
    <3>3. \A j \in (NR_LEDS + 1)..(NR_LEDS + n) :
             j - NR_LEDS \in 1..n /\ M[j].led = tokens[j - NR_LEDS].led
      <4> TAKE j \in (NR_LEDS + 1)..(NR_LEDS + n)
      <4>1. j - NR_LEDS \in 1..n /\ NR_LEDS + (j - NR_LEDS) = j
        BY <2>3
      <4>2. M[NR_LEDS + (j - NR_LEDS)].led = tokens[j - NR_LEDS].led
        BY <2>3, <4>1
      <4> QED BY <4>1, <4>2
    <3>4. CASE named = {}
      <4>1. l + 1 \in 1..(NR_LEDS + n) /\ M[l + 1].led = l /\ M[l + 1].color = 0
        BY <2>3, <3>1
      <4>2. ASSUME NEW j \in (l + 2)..(NR_LEDS + n) PROVE M[j].led # l
        <5>1. CASE j <= NR_LEDS
          BY <3>1, <3>2, <5>1
        <5>2. CASE ~(j <= NR_LEDS)
          <6>1. j \in (NR_LEDS + 1)..(NR_LEDS + n)
            BY <2>3, <3>1, <5>2
          <6>2. j - NR_LEDS \notin named
            BY <3>4
          <6> QED BY <3>3, <6>1, <6>2
        <5> QED BY <5>1, <5>2
      <4>3. leds[l] = 0
        BY <2>4, <3>1, <4>1, <4>2
      <4> QED BY <3>4, <4>3 DEF Painted
    <3>5. CASE named # {}
      <4> DEFINE last == CHOOSE i \in named : \A j \in named : j <= i
      <4>1. named \in SUBSET (1..n)
        OBVIOUS
      <4>2. last \in named /\ \A j \in named : j <= last
        <5> HIDE DEF named
        <5>1. \E i \in named : \A j \in named : j <= i
          BY <2>3, <3>5, <4>1, GreatestPosition
        <5> QED BY <5>1
      <4>3. PICK i \in 1..n : i = last
        BY <4>1, <4>2
      <4>4. tokens[i].led = l /\ \A j \in 1..n : tokens[j].led = l => j <= i
        BY <4>2, <4>3
      <4>5. /\ NR_LEDS + i \in 1..(NR_LEDS + n)
            /\ M[NR_LEDS + i].led = l
            /\ M[NR_LEDS + i].color = InForce(tokens, i)
        BY <2>3, <4>4
      <4>6. ASSUME NEW j \in (NR_LEDS + i + 1)..(NR_LEDS + n)
            PROVE  M[j].led # l
        <5>1. j \in (NR_LEDS + 1)..(NR_LEDS + n) /\ ~(j - NR_LEDS <= i)
          BY <2>3
        <5> QED BY <3>3, <4>4, <5>1
      <4>7. leds[l] = InForce(tokens, i)
        BY <2>4, <4>5, <4>6
      <4>8. Painted(tokens)[l] = InForce(tokens, last)
        BY <3>5 DEF Painted
      <4> QED BY <4>3, <4>7, <4>8
    <3> QED BY <3>4, <3>5
  <2>6. leds \in [Led -> Colors]
    BY <1>1 DEF Inv, WriteTypes
  <2>7. Painted(tokens) = [l \in Led |-> Painted(tokens)[l]]
    BY DEF Painted
  <2>8. leds = [l \in Led |-> leds[l]]
    BY <2>6
  <2> QED BY <2>1, <2>5, <2>7, <2>8
<1>2. Inv => WriteExact
  BY <1>1 DEF WriteExact
<1> QED BY <1>2, InvHolds, PTL
=============================================================================
