------------------------------ MODULE SmmuMatch ------------------------------
(***************************************************************************)
(* initramfs/tests/piano-qup-smmu: the stream-match (SMR) and              *)
(* stream-to-context (S2CR) tables of the apps SMMU, and the script that   *)
(* adds matches to them while devices keep issuing DMA.                    *)
(*                                                                         *)
(* A stream ID, and the mask of an SMR, is the set of the bit positions    *)
(* that are 1.  Bitwise AND-NOT is then set difference, and the shell      *)
(* arithmetic of the script becomes set algebra over any width.            *)
(***************************************************************************)
EXTENDS Naturals, Sequences

CONSTANTS
    Bits,      \* bit positions of a stream ID
    MaskBits,  \* bit positions the SMR mask field has (bit 15 is missing)
    Contexts,  \* context banks
    UsbSid,    \* USB_SID
    MaxSmr,    \* largest plausible NUMSMRG
    Boot,      \* the register files a bootloader may leave
    Calls,     \* command lines the script is run with
    MaxCalls,  \* bound: how often it is run
    Rejected,  \* mask values whose SMR write the hypervisor refuses
    Unmatched, \* see StreamRouting
    Conflict   \* what a stream matched by two SMRs gets

Streams == SUBSET Bits
SMR     == [valid : BOOLEAN, id : Streams, mask : SUBSET MaskBits]
Routes  == [type : {"context", "bypass", "fault"}, cb : Contexts]
Request == [sid : Streams, mask : Streams]

SymDiff(a, b) == (a \ b) \cup (b \ a)

\* Mutant: the MASK argument of smr_match is forgotten (lines 52).
CoversSidOnly(e, sid, want) == e.valid /\ SymDiff(sid, e.id) \ e.mask = {}

\* smr_match's test: entry e covers SID and every stream the MASK adds.
Covers(e, sid, want) ==
    /\ e.valid
    /\ SymDiff(sid, e.id) \ e.mask = {}
    /\ want \ e.mask = {}

\* The stream-match conflict test: some stream would match both.
Overlaps(e, sid, mask) ==
    /\ e.valid
    /\ SymDiff(sid, e.id) \ (mask \cup e.mask) = {}

\* sid=$((sid & ~smask)): the ID bits under the mask are dropped.
Normal(r) == [sid |-> r.sid \ r.mask, mask |-> r.mask]

\* The hardware's own rule: stream s hits entry e.
Hits(e, s) == e.valid /\ SymDiff(s, e.id) \ e.mask = {}

\* A register file the bootloader can leave: no stream hits two entries.
BootTable(b) ==
    /\ b.nsmr \in Nat
    /\ b.clientpd \in BOOLEAN
    /\ b.smr \in [0 .. (b.nsmr - 1) -> SMR]
    /\ b.s2cr \in [0 .. (b.nsmr - 1) -> Routes]
    /\ b.translating \subseteq Contexts
    /\ \A i, j \in 0 .. (b.nsmr - 1) : \A s \in Streams :
          Hits(b.smr[i], s) /\ Hits(b.smr[j], s) => i = j

ASSUME BitsAssumption == MaskBits \subseteq Bits /\ UsbSid \in Streams
ASSUME BootAssumption == \A b \in Boot : BootTable(b)
\* A mask is range-checked by the script (RefuseArg).  A stream ID is not: bits from
\* 16 on would end up in the mask field of the SMR (line 99).  Both callers,
\* rootfs-init:57-66 and piano-touch-test:192, stay within the 16 bits.
ASSUME CallsAssumption ==
    \A c \in Calls : c.check \in BOOLEAN /\ c.args \in Seq(Request)
ASSUME MarkAssumption == /\ Unmatched \notin Routes
                         /\ Conflict \notin Routes
                         /\ Unmatched # Conflict
                         /\ Contexts # {}
                         /\ MaxCalls \in Nat

VARIABLES
    boot,   \* what ABL left, never written: the reference for both tables
    smr,    \* the SMR table
    s2cr,   \* the S2CR table
    pc,     \* where the script is
    call,   \* its command line
    todo,   \* the arguments still to process, the current one first
    route,  \* $s2cr, copied from the USB slot
    free,   \* $free
    exit,   \* outcome of the last run
    runs    \* number of runs so far

hw   == <<smr, s2cr>>
vars == <<boot, smr, s2cr, pc, call, todo, route, free, exit, runs>>

Slots == 0 .. (boot.nsmr - 1)

\* smr_match SID MASK finds a slot.
Matched(r) == \E i \in Slots : Covers(smr[i], r.sid, r.mask)

NoCall == [check |-> TRUE, args |-> <<>>]

Stop(result) == pc' = "idle" /\ exit' = result

Init ==
    /\ boot \in Boot
    /\ smr = boot.smr
    /\ s2cr = boot.s2cr
    /\ pc = "idle"
    /\ call = NoCall
    /\ todo = <<>>
    /\ route = CHOOSE r \in Routes : TRUE
    /\ free = 0
    /\ exit = "none"
    /\ runs = 0

Start(c) ==
    /\ pc = "idle"
    /\ runs < MaxCalls
    /\ runs' = runs + 1
    /\ call' = c
    /\ todo' = c.args
    /\ pc' = "setup"
    /\ exit' = "none"
    /\ UNCHANGED <<boot, smr, s2cr, route, free>>

\* The slot smr_match prints for a SID: the first that covers it.
FirstMatch(sid, i) ==
    /\ Covers(smr[i], sid, {})
    /\ \A j \in Slots : j < i => ~ Covers(smr[j], sid, {})

\* CLIENTPD: the SMMU is off, exit 0 without looking at the tables.
SetupOff ==
    /\ pc = "setup" /\ boot.clientpd
    /\ Stop("skip")
    /\ UNCHANGED <<boot, smr, s2cr, call, todo, route, free, runs>>

\* A pass-through context to copy: a translation context with stage 1 off.
PassThrough(r) == r.type = "context" /\ r.cb \notin boot.translating

PlausibleSmrs == boot.nsmr > 0 /\ boot.nsmr <= MaxSmr

SetupRefused ==
    /\ pc = "setup" /\ ~ boot.clientpd
    /\ \/ ~ PlausibleSmrs
       \/ ~ Matched([sid |-> UsbSid, mask |-> {}])
       \/ \E i \in Slots : FirstMatch(UsbSid, i) /\ ~ PassThrough(s2cr[i])
    /\ Stop("died")
    /\ UNCHANGED <<boot, smr, s2cr, call, todo, route, free, runs>>

SetupDone ==
    /\ pc = "setup" /\ ~ boot.clientpd /\ PlausibleSmrs
    /\ \E i \in Slots :
          /\ FirstMatch(UsbSid, i)
          /\ PassThrough(s2cr[i])
          /\ route' = s2cr[i]
    /\ pc' = "next"
    /\ UNCHANGED <<boot, smr, s2cr, call, todo, free, exit, runs>>

Finish ==
    /\ pc = "next" /\ todo = <<>>
    /\ Stop("ok")
    /\ UNCHANGED <<boot, smr, s2cr, call, todo, route, free, runs>>

\* Mutant: no range check of the mask.
InRangeAlways(r) == TRUE

InRange(r) == r.mask \subseteq MaskBits

\* Already matched, or --check: report and go on with the next argument.
SkipArg ==
    /\ pc = "next" /\ todo # <<>> /\ InRange(Head(todo))
    /\ Matched(Normal(Head(todo))) \/ call.check
    /\ todo' = Tail(todo)
    /\ UNCHANGED <<boot, smr, s2cr, pc, call, route, free, exit, runs>>

\* The argument has to be added, if the table allows it.
ToAdd(r) == InRange(r) /\ ~ Matched(Normal(r)) /\ ~ call.check

Clashes(r) ==
    \E i \in Slots : Overlaps(smr[i], Normal(r).sid, Normal(r).mask)

FirstFree(i) == ~ smr[i].valid /\ \A j \in Slots : j < i => smr[j].valid

RefuseArg ==
    /\ pc = "next" /\ todo # <<>>
    /\ \/ ~ InRange(Head(todo))
       \/ ToAdd(Head(todo)) /\ Clashes(Head(todo))
       \/ ToAdd(Head(todo)) /\ \A i \in Slots : smr[i].valid
    /\ Stop("died")
    /\ UNCHANGED <<boot, smr, s2cr, call, todo, route, free, runs>>

ClaimSlot ==
    /\ pc = "next" /\ todo # <<>>
    /\ ToAdd(Head(todo)) /\ ~ Clashes(Head(todo))
    /\ \E i \in Slots : FirstFree(i) /\ free' = i
    /\ pc' = "route"
    /\ UNCHANGED <<boot, smr, s2cr, call, todo, route, exit, runs>>

\* Mutant: the match is made valid before its route is written.
WriteRouteLate ==
    /\ pc = "route"
    /\ smr' = [smr EXCEPT ![free] =
                  [valid |-> TRUE, id |-> Normal(Head(todo)).sid,
                   mask |-> Normal(Head(todo)).mask]]
    /\ pc' = "match"
    /\ UNCHANGED <<boot, s2cr, call, todo, route, free, exit, runs>>

\* Mutant: the S2CR keeps what it held.
WriteRouteSkipped ==
    /\ pc = "route"
    /\ pc' = "match"
    /\ UNCHANGED <<boot, smr, s2cr, call, todo, route, free, exit, runs>>

\* "route first, then make the match valid"
WriteRoute ==
    /\ pc = "route"
    /\ s2cr' = [s2cr EXCEPT ![free] = route]
    /\ pc' = "match"
    /\ UNCHANGED <<boot, smr, call, todo, route, free, exit, runs>>

NewEntry(r) == [valid |-> TRUE, id |-> Normal(r).sid, mask |-> Normal(r).mask]

\* A write the hypervisor refuses is a bus error in devmem: nothing changes
\* and, without set -e, the script goes on.
WriteMatch ==
    /\ pc = "match"
    /\ smr' = IF Head(todo).mask \in Rejected THEN smr
              ELSE [smr EXCEPT ![free] = NewEntry(Head(todo))]
    /\ pc' = "recheck"
    /\ UNCHANGED <<boot, s2cr, call, todo, route, free, exit, runs>>

Recheck ==
    /\ pc = "recheck"
    /\ IF Matched(Normal(Head(todo)))
       THEN pc' = "next" /\ todo' = Tail(todo) /\ UNCHANGED exit
       ELSE Stop("died") /\ UNCHANGED todo
    /\ UNCHANGED <<boot, smr, s2cr, call, route, free, runs>>

\* The shell is interrupted (a dropped SSH session, ^C) between two commands.
Interrupt ==
    /\ pc # "idle"
    /\ Stop("killed")
    /\ UNCHANGED <<boot, smr, s2cr, call, todo, route, free, runs>>

Script == \/ SetupOff \/ SetupRefused \/ SetupDone
          \/ Finish \/ SkipArg \/ RefuseArg \/ ClaimSlot
          \/ WriteRoute \/ WriteMatch \/ Recheck

Next == (\E c \in Calls : Start(c)) \/ Script \/ Interrupt

Spec == Init /\ [][Next]_vars
-----------------------------------------------------------------------------
TypeOK ==
    /\ boot \in Boot
    /\ smr \in [Slots -> SMR]
    /\ s2cr \in [Slots -> Routes]
    /\ pc \in {"idle", "setup", "next", "route", "match", "recheck"}
    /\ call \in Calls \cup {NoCall}
    /\ todo \in Seq(Request)
    /\ route \in Routes
    /\ free \in Nat
    /\ exit \in {"none", "ok", "skip", "died", "killed"}
    /\ runs \in 0 .. MaxCalls

\* No stream ever hits two valid SMRs: the hardware's answer to that is a
\* stream-match conflict fault for a device that worked before (lines 82-91).
NoConflict ==
    \A i, j \in Slots : \A s \in Streams :
        Hits(smr[i], s) /\ Hits(smr[j], s) => i = j

\* Whatever the script was interrupted in, an entry that is valid now and was
\* not left by the bootloader routes to a pass-through context: a stream is
\* never live on a stale S2CR (lines 97-99).
AddedPassThrough ==
    \A i \in Slots : smr[i].valid /\ ~ boot.smr[i].valid => PassThrough(s2cr[i])

\* The entries ABL installed for itself keep their match and their route
\* (header: "Only the SMR/S2CR tables ..."; "IDs that already match are left
\* alone"), whatever is requested and however often.
BootloaderKept ==
    \A i \in Slots :
        boot.smr[i].valid => smr[i] = boot.smr[i] /\ s2cr[i] = boot.s2cr[i]

\* Between any two writes of any run: no stream is matched twice, none is live on
\* a stale route, and what the bootloader set up for itself is as it was.
TablesSound == NoConflict /\ AddedPassThrough /\ BootloaderKept

\* Streams of a request: the SID with every value of the masked bits.
StreamsOf(r) == {s \in Streams : SymDiff(s, r.sid) \subseteq r.mask}

\* Exit 0 of a real run means that no stream of any argument faults any more,
\* and it still holds when the script ran again or died later (the callers
\* take exit 0 as leave to start DMA: rootfs-init:57-58).
OkMeansRouted ==
    exit = "ok" /\ ~ call.check =>
        \A k \in DOMAIN call.args : \A s \in StreamsOf(call.args[k]) :
            \E i \in Slots : Hits(smr[i], s)

\* "running it twice is harmless": a table write needs an argument of the
\* command line that was not matched yet, so a second run writes nothing.
WritesOnlyUnmatched ==
    [][smr' # smr \/ s2cr' # s2cr =>
         /\ ~ call.check
         /\ \E k \in DOMAIN call.args : ~ Matched(Normal(call.args[k]))]_vars
-----------------------------------------------------------------------------
\* What devices see of the two tables.
Routing ==
    [s \in Streams |->
        LET hit == {i \in Slots : Hits(smr[i], s)}
        IN  IF hit = {} THEN Unmatched
            ELSE IF \E i \in hit : hit = {i} THEN s2cr[CHOOSE i \in hit : TRUE]
            ELSE Conflict]

Abstract == INSTANCE StreamRouting WITH
    routing <- Routing, UsbStream <- UsbSid

\* The script implements the repair its header describes: streams go from
\* faulting to the USB stream's route, a whole range in one step, and nothing
\* else is ever observable from a device.
RepairsRouting == Abstract!Spec
=============================================================================
