----------------------------- MODULE MCTestImage -----------------------------
(***************************************************************************)
(* The two programs of the test image that bring up hardware in stages:    *)
(* PID 1, and the touch test that is started later from a shell.  They     *)
(* share no state that either of them models, so that a behaviour is one   *)
(* of PID 1 or one of touch tests.                                         *)
(*                                                                         *)
(* PID 1: the waits of the ladder end after two polls instead of 30 and    *)
(* 75, which is enough for an answer before, at and after the last one.    *)
(* Touch test: two runs; the default (0-4), everything, a stage alone, and *)
(* an empty range.                                                         *)
(***************************************************************************)
EXTENDS TouchTest

CONSTANTS UdcLimit, Rounds, SetupLimit, ResultLimit, PhyLimit, MaxHolds, MaxDiags

VARIABLES
    program,  \* the program that is run
    \* of TestImage; groups is its loaded, rounds its r
    main, w, beacon, rounds, ladder, n, btOk, diags, diagLoop, groups, files, udc,
    hci, wiphy, holds

pid1    == <<main, w, beacon, rounds, ladder, n, btOk, diags, diagLoop, groups, files,
             udc, hci, wiphy, holds>>
allVars == <<program, vars, pid1>>

Pid1 == INSTANCE TestImage WITH loaded <- groups, r <- rounds

ASSUME Pid1Assumption == Pid1!TestImageAssumption

ArgsOf == { [first |-> 0, last |-> 4], [first |-> 0, last |-> 5], [first |-> 2, last |-> 2],
            [first |-> 4, last |-> 4], [first |-> 5, last |-> 5], [first |-> 3, last |-> 1] }

MCInit ==
    /\ Pid1!Init /\ Init
    /\ \/ program = "touch-test"
       \/ /\ program = "pid1" /\ ~ image /\ ~ streams
          /\ \A q \in Runs : args[q] = [first |-> 0, last |-> 4]

Pid1Step(A) == program = "pid1" /\ A /\ UNCHANGED <<program, vars>>

MCNext ==
    \/ Pid1Step(Pid1!Next)
    \/ program = "touch-test" /\ Next /\ UNCHANGED <<program, pid1>>

\* The fairness of TestImage.
MCSpec ==
    /\ MCInit /\ [][MCNext]_allVars
    /\ WF_allVars(Pid1Step(Pid1!Main)) /\ WF_allVars(Pid1Step(Pid1!Beacon))
    /\ WF_allVars(Pid1Step(Pid1!Ladder)) /\ WF_allVars(Pid1Step(Pid1!DiagLoop))

\* The types of both programs; the loops of PID 1 end at their bounds, and its
\* evidence "BT result: yes" is never wrong, however setup and wait race.
TypesOK == TypeOK /\ Pid1!TypeOK

\* Whatever is broken, PID 1 ends as a shell, and the ladder gets to its end, unless
\* the operator holds it for good.
Pid1Ends == (program = "pid1" => Pid1!ShellReached) /\ Pid1!LadderCompletes
=============================================================================
