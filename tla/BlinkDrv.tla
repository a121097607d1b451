-------------------------------- MODULE BlinkDrv --------------------------------
(***************************************************************************)
(* blinkdrv.c: the driver of a USB device with a row of LEDs.  probe and   *)
(* disconnect are called by the USB core as the device comes and goes;     *)
(* processes open its device file, write colours to it and close it.  The  *)
(* structure usb_blink is counted by a kref and freed with the last        *)
(* reference.                                                              *)
(*                                                                         *)
(* The USB core is external: usb_open holds minor_rwsem for reading while  *)
(* it calls open, usb_register_dev and usb_deregister_dev take it for      *)
(* writing, probe and disconnect are not concurrent, and a message to a    *)
(* device that is gone fails.  One device is connected at a time; each     *)
(* time it comes probe gets a structure of its own.                        *)
(***************************************************************************)
EXTENDS Integers, Sequences, FiniteSets

CONSTANTS
    Procs,     \* processes that open the device file
    Devs,      \* memory for structures usb_blink
    NoDev,     \* the null pointer
    NR_LEDS,
    Colors,    \* colours a LED may have; 0 is off
    Requests   \* what is written: sequences of tokens

\* A token is "led:colour" or, when color is Same, just "led".  Tokens without
\* a number send nothing and are left out; a lone newline is the empty request.
Same == -1

ASSUME BlinkAssumption ==
    /\ IsFiniteSet(Procs) /\ IsFiniteSet(Devs) /\ NoDev \notin Devs
    /\ NR_LEDS \in Nat \ {0}
    /\ Colors \subseteq Nat /\ 0 \in Colors
    /\ Requests \subseteq Seq([led : Nat, color : Colors \cup {Same}])

VARIABLES
    present,    \* the device is plugged in
    driver,     \* where probe or disconnect stands
    current,    \* the structure it works on
    intfdata,   \* usb_get_intfdata(interface)
    minor,      \* the minor is registered: usb_open finds the driver
    kref,       \* references of each structure; 0 if it is not allocated
    at,         \* where each process stands in open, write or release
    dev,        \* the structure it found or has in file->private_data
    asked,      \* what it writes
    sent,       \* messages of that already sent or skipped
    leds,       \* colours of the LEDs
    alone       \* history: only this process has sent messages since it began

usb == <<present, driver, current, intfdata, minor>>
writing == <<asked, sent, alone>>
vars == <<usb, kref, at, dev, writing, leds>>

Led == 0..(NR_LEDS - 1)

Goto(p, place) == at' = [at EXCEPT ![p] = place]

-----------------------------------------------------------------------------
(* References                                                              *)

Get(d) == kref' = [kref EXCEPT ![d] = @ + 1]

\* kref_put, which frees the structure with the last reference.
Put(d) == kref' = [kref EXCEPT ![d] = @ - 1]

-----------------------------------------------------------------------------
(* blink_probe and blink_disconnect                                        *)

\* A device is plugged in; the structure is set up and made the interface's.
Probe ==
    /\ driver = "none" /\ ~present
    /\ \E d \in {e \in Devs : kref[e] = 0} :
          /\ kref' = [kref EXCEPT ![d] = 1]
          /\ current' = d /\ intfdata' = d
    /\ present' = TRUE /\ driver' = "probe"
    /\ leds' \in [Led -> Colors]
    /\ UNCHANGED <<minor, at, dev, writing>>

Register ==
    /\ driver = "probe"
    /\ minor' = TRUE /\ driver' = "bound"
    /\ UNCHANGED <<present, current, intfdata, kref, at, dev, writing, leds>>

\* usb_register_dev fails.
ProbeFails ==
    /\ driver = "probe"
    /\ intfdata' = NoDev
    /\ driver' = IF present THEN "refused" ELSE "none"
    /\ Put(current) /\ current' = NoDev
    /\ UNCHANGED <<present, minor, at, dev, writing, leds>>

\* The device is unplugged.
Unplug ==
    /\ present
    /\ present' = FALSE
    /\ driver' = IF driver = "refused" THEN "none" ELSE driver
    /\ UNCHANGED <<current, intfdata, minor, kref, at, dev, writing, leds>>

Disconnect ==
    /\ driver = "bound" /\ ~present
    /\ intfdata' = NoDev
    /\ driver' = "disconnect"
    /\ UNCHANGED <<present, current, minor, kref, at, dev, writing, leds>>

\* p is between down_read and up_read on minor_rwsem.
Opening(p) == at[p] \in {"open", "found"}

\* usb_deregister_dev asks for minor_rwsem: from then on no process gets it for
\* reading.
AskMinor ==
    /\ driver = "disconnect"
    /\ driver' = "await"
    /\ UNCHANGED <<present, current, intfdata, minor, kref, at, dev, writing, leds>>

\* Mutant of Deregister: it does not wait for the processes inside open.
DeregisterAtOnce ==
    /\ driver = "await"
    /\ minor' = FALSE /\ driver' = "drop"
    /\ UNCHANGED <<present, current, intfdata, kref, at, dev, writing, leds>>

Deregister ==
    /\ driver = "await" /\ \A p \in Procs : ~Opening(p)
    /\ minor' = FALSE /\ driver' = "drop"
    /\ UNCHANGED <<present, current, intfdata, kref, at, dev, writing, leds>>

\* dev->interface = NULL, then kref_put.
Drop ==
    /\ driver = "drop"
    /\ Put(current) /\ current' = NoDev
    /\ driver' = "none"
    /\ UNCHANGED <<present, intfdata, minor, at, dev, writing, leds>>

-----------------------------------------------------------------------------
(* blink_open and blink_release                                            *)

\* usb_open finds the driver by the minor.
CallOpen(p) ==
    /\ at[p] = "closed" /\ minor /\ driver # "await"
    /\ Goto(p, "open")
    /\ UNCHANGED <<usb, kref, dev, writing, leds>>

\* -ENODEV: disconnect has begun.
FindNothing(p) ==
    /\ at[p] = "open" /\ intfdata = NoDev
    /\ Goto(p, "closed")
    /\ UNCHANGED <<usb, kref, dev, writing, leds>>

Find(p) ==
    /\ at[p] = "open" /\ intfdata # NoDev
    /\ dev' = [dev EXCEPT ![p] = intfdata]
    /\ Goto(p, "found")
    /\ UNCHANGED <<usb, kref, writing, leds>>

\* Mutant of Open: kref_get is missing.
OpenUncounted(p) ==
    /\ at[p] = "found"
    /\ Goto(p, "opened")
    /\ UNCHANGED <<usb, kref, dev, writing, leds>>

Open(p) ==
    /\ at[p] = "found"
    /\ Get(dev[p])
    /\ Goto(p, "opened")
    /\ UNCHANGED <<usb, dev, writing, leds>>

\* Mutant of Release: kref_put is missing.
ReleaseKeeps(p) ==
    /\ at[p] = "opened"
    /\ dev' = [dev EXCEPT ![p] = NoDev]
    /\ Goto(p, "closed")
    /\ UNCHANGED <<usb, kref, writing, leds>>

Release(p) ==
    /\ at[p] = "opened"
    /\ Put(dev[p])
    /\ dev' = [dev EXCEPT ![p] = NoDev]
    /\ Goto(p, "closed")
    /\ UNCHANGED <<usb, writing, leds>>

-----------------------------------------------------------------------------
(* blink_write                                                             *)

\* The colour sscanf has left in color after token i: it is never reset.
InForce(tokens, i) ==
    LET given == {j \in 1..i : tokens[j].color # Same}
    IN  IF given = {} THEN 0
        ELSE tokens[CHOOSE j \in given : \A k \in given : k <= j].color

\* Mutant of Clearing: the last LED is not turned off.
ClearingAllButOne == [i \in 1..(NR_LEDS - 1) |-> [led |-> i - 1, color |-> 0]]

\* First every LED is turned off.
Clearing == [i \in 1..NR_LEDS |-> [led |-> i - 1, color |-> 0]]

\* Then one message is due for each token.
Painting(tokens) ==
    [i \in 1..Len(tokens) |->
        [led |-> tokens[i].led, color |-> InForce(tokens, i)]]

Messages(tokens) == Clearing \o Painting(tokens)

CallWrite(p) ==
    /\ at[p] = "opened"
    /\ \E tokens \in Requests : asked' = [asked EXCEPT ![p] = tokens]
    /\ alone' = [alone EXCEPT ![p] = TRUE]
    /\ Goto(p, "write")
    /\ UNCHANGED <<usb, kref, dev, sent, leds>>

\* The message that is p's turn to send.
Turn(p) == Messages(asked[p])[sent[p] + 1]

\* A token that names no LED sends nothing.
Skip(p) ==
    /\ at[p] = "write" /\ sent[p] < Len(Messages(asked[p]))
    /\ Turn(p).led \notin Led
    /\ sent' = [sent EXCEPT ![p] = @ + 1]
    /\ UNCHANGED <<usb, kref, at, dev, asked, alone, leds>>

\* The call returns.  Its buffer kbuf is not modelled: strsep (195) moves the
\* pointer on to null, so that vfree(kbuf) (232) releases nothing; where a failed
\* message (237) leaves it inside the block, it is given a wrong address.
Finish(p) ==
    /\ Goto(p, "opened")
    /\ asked' = [asked EXCEPT ![p] = <<>>]
    /\ sent' = [sent EXCEPT ![p] = 0]

\* usb_control_msg succeeds: p's structure is that of the device plugged in.
Send(p) ==
    /\ at[p] = "write" /\ sent[p] < Len(Messages(asked[p]))
    /\ Turn(p).led \in Led
    /\ present /\ dev[p] = current
    /\ leds' = [leds EXCEPT ![Turn(p).led] = Turn(p).color]
    /\ sent' = [sent EXCEPT ![p] = @ + 1]
    /\ alone' = [q \in Procs |-> alone[q] /\ q = p]
    /\ UNCHANGED <<usb, kref, at, dev, asked>>

\* usb_control_msg fails: the call ends there.
SendFails(p) ==
    /\ at[p] = "write" /\ sent[p] < Len(Messages(asked[p]))
    /\ Turn(p).led \in Led
    /\ Finish(p)
    /\ alone' = [alone EXCEPT ![p] = FALSE]
    /\ UNCHANGED <<usb, kref, dev, leds>>

EndWrite(p) ==
    /\ at[p] = "write" /\ sent[p] = Len(Messages(asked[p]))
    /\ Finish(p)
    /\ alone' = [alone EXCEPT ![p] = FALSE]
    /\ UNCHANGED <<usb, kref, dev, leds>>

-----------------------------------------------------------------------------
Init ==
    /\ present = FALSE /\ driver = "none"
    /\ current = NoDev /\ intfdata = NoDev /\ minor = FALSE
    /\ kref = [d \in Devs |-> 0]
    /\ at = [p \in Procs |-> "closed"] /\ dev = [p \in Procs |-> NoDev]
    /\ asked = [p \in Procs |-> <<>>] /\ sent = [p \in Procs |-> 0]
    /\ leds = [l \in Led |-> 0]
    /\ alone = [p \in Procs |-> FALSE]

DriverStep == Register \/ ProbeFails \/ Disconnect \/ AskMinor \/ Deregister \/ Drop
FileStep(p) ==
    \/ FindNothing(p) \/ Find(p) \/ Open(p)
    \/ Skip(p) \/ Send(p) \/ SendFails(p) \/ EndWrite(p)

Next ==
    \/ Probe \/ Unplug \/ DriverStep
    \/ \E p \in Procs : CallOpen(p) \/ CallWrite(p) \/ Release(p) \/ FileStep(p)

Spec == Init /\ [][Next]_vars

\* The USB core completes what it has begun, handlers run, and every file is
\* closed in the end, if only because its process ends.
Fairness ==
    /\ WF_vars(DriverStep)
    /\ \A p \in Procs : WF_vars(FileStep(p)) /\ SF_vars(Release(p))
FairSpec == Spec /\ Fairness

-----------------------------------------------------------------------------
(* Properties                                                              *)

(* Every variable keeps its type; a reference count is never negative. *)
TypeOK ==
    /\ present \in BOOLEAN /\ minor \in BOOLEAN
    /\ driver \in {"none", "probe", "refused", "bound", "disconnect", "await", "drop"}
    /\ current \in Devs \cup {NoDev} /\ intfdata \in Devs \cup {NoDev}
    /\ kref \in [Devs -> 0..(Cardinality(Procs) + 1)]
    /\ at \in [Procs -> {"closed", "open", "found", "opened", "write"}]
    /\ dev \in [Procs -> Devs \cup {NoDev}]
    /\ asked \in [Procs -> Requests \cup {<<>>}]
    /\ \A p \in Procs : sent[p] \in 0..Len(Messages(asked[p]))
    /\ leds \in [Led -> Colors] /\ alone \in [Procs -> BOOLEAN]

(* No structure is freed while open, write, release, probe or disconnect may
   still touch it; in particular not between the load of intfdata in open (71)
   and its kref_get (76), which holds no reference yet. *)
NoUseAfterFree ==
    /\ current # NoDev => kref[current] > 0
    /\ intfdata # NoDev => kref[intfdata] > 0
    /\ \A p \in Procs : dev[p] # NoDev => kref[dev[p]] > 0

\* The files that hold a reference to d.
Files(d) == {p \in Procs : dev[p] = d /\ at[p] \in {"opened", "write"}}

(* A structure has one reference for each open file and one for the driver
   between probe and disconnect: it is freed once, by whoever is last. *)
RefsExact ==
    \A d \in Devs :
        kref[d] = Cardinality(Files(d)) + (IF d = current THEN 1 ELSE 0)

\* What a request asks for: the last token naming a LED decides, and all the
\* other LEDs are off.
Painted(tokens) ==
    [l \in Led |->
        LET named == {i \in 1..Len(tokens) : tokens[i].led = l}
        IN  IF named = {} THEN 0
            ELSE InForce(tokens, CHOOSE i \in named : \A j \in named : j <= i)]

(* When a write that no other one disturbed ends, the LEDs show what it asked
   for, whatever they, a failed write or another device showed before.  (write
   takes no lock: the messages of two writers are mixed.) *)
WriteExact ==
    \A p \in Procs :
        at[p] = "write" /\ sent[p] = Len(Messages(asked[p])) /\ alone[p]
            => leds = Painted(asked[p]) \/ dev[p] # current

(* After the device is unplugged its structure is freed in the end, in
   whatever order disconnect and the last close come. *)
FreedInTheEnd ==
    \A d \in Devs : (kref[d] > 0 /\ ~(present /\ current = d)) ~> kref[d] = 0
=============================================================================
