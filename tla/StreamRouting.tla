---------------------------- MODULE StreamRouting ----------------------------
(***************************************************************************)
(* What the apps SMMU does with DMA, seen from the devices: every stream   *)
(* is either unmatched (it faults) or routed somewhere.  The repair that   *)
(* piano-qup-smmu promises in its header is that streams which faulted     *)
(* become routed exactly like the USB stream, and that nothing else ever   *)
(* changes: no stream is re-routed, un-routed or matched twice.            *)
(***************************************************************************)
CONSTANTS
    Streams,    \* the stream IDs devices can present
    Routes,     \* the values of an S2CR register
    Unmatched,  \* the routing of a stream no SMR matches
    UsbStream   \* the stream ABL itself uses for USB

VARIABLE routing

Init == routing \in [Streams -> Routes \cup {Unmatched}]

\* A set of faulting streams joins the USB stream's route, all at once.
Grant(S) ==
    /\ routing[UsbStream] \in Routes
    /\ \A s \in S : routing[s] = Unmatched
    /\ routing' = [s \in Streams |->
                     IF s \in S THEN routing[UsbStream] ELSE routing[s]]

Next == \E S \in SUBSET Streams : Grant(S)

Spec == Init /\ [][Next]_routing
=============================================================================
