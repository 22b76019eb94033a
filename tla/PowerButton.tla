----------------------------- MODULE PowerButton -----------------------------
(***************************************************************************)
(* usr/lib/piano/power-button, the user service of the GNOME session that  *)
(* owns the power key: a short press toggles the backlight, a long one     *)
(* opens the power-off dialog.                                             *)
(*                                                                         *)
(* The user, the kernel's event queue, the service and the desktop (which  *)
(* writes the same brightness) run concurrently.  The service handles its  *)
(* events one after the other and blocks in every call it makes.           *)
(***************************************************************************)
EXTENDS Integers, Sequences

CONSTANTS
    MaxLevel,     \* brightness is 0 .. MaxLevel
    LongPress,    \* LONG_PRESS, in ticks
    Writes,       \* bound: brightness changes made by the desktop
    MaxPresses,   \* bound: presses of the key
    MaxCrashes,   \* bound: crashes of the service
    MaxRefused,   \* bound: SetBrightness calls that fail
    None,         \* Python's None
    Dialog        \* the call of power_dialog()

ASSUME PowerButtonAssumption ==
    /\ MaxLevel \in Nat \ {0} /\ LongPress \in Nat \ {0}
    /\ Writes \in Nat /\ MaxPresses \in Nat /\ MaxCrashes \in Nat
    /\ MaxRefused \in Nat
    /\ None \notin Nat /\ Dialog \notin Nat /\ None # Dialog

Levels == 0 .. MaxLevel

VARIABLES
    held, heldFor, \* the key, and for how long (up to LongPress)
    queue,      \* events of the key the service has not read
    running,    \* the service
    batch,      \* events it has read and not handled
    calls,      \* calls it has still to make before it goes on
    pressed,    \* None, or ticks since pressed_at (up to LongPress)
    saved,      \* Screen.saved
    brightness, \* of the panel
    userLevel,  \* the brightness last chosen by anyone but the service
    presses, acts, dialogs, crashes, writes, refused

service == <<running, batch, calls, pressed, saved>>
counts  == <<presses, acts, dialogs, crashes, writes, refused>>
vars    == <<held, heldFor, queue, service, brightness, userLevel, counts>>

Init ==
    /\ held = FALSE /\ heldFor = 0 /\ queue = << >>
    /\ running = TRUE /\ batch = << >> /\ calls = << >>
    /\ pressed = None /\ saved = None
    /\ brightness \in Levels \ {0} /\ userLevel = brightness
    /\ presses = 0 /\ acts = 0 /\ dialogs = 0 /\ crashes = 0 /\ writes = 0
    /\ refused = 0
-----------------------------------------------------------------------------
(* The user and the kernel.                                                *)

\* Only a device that is open queues events; a repeat is not a press.
Emit(e) == queue' = IF running THEN Append(queue, e) ELSE queue

Press ==
    /\ ~held /\ presses < MaxPresses
    /\ held' = TRUE /\ heldFor' = 0 /\ presses' = presses + 1
    /\ Emit("down")
    /\ UNCHANGED <<service, brightness, userLevel, acts, dialogs, crashes, writes,
                   refused>>

Release ==
    /\ held /\ held' = FALSE
    /\ Emit("up")
    /\ UNCHANGED <<heldFor, service, brightness, userLevel, counts>>

Older(n) == IF n < LongPress THEN n + 1 ELSE n

Tick ==
    /\ heldFor' = IF held THEN Older(heldFor) ELSE heldFor
    /\ pressed' = IF pressed = None THEN None ELSE Older(pressed)
    /\ <<heldFor', pressed'>> # <<heldFor, pressed>>
    /\ UNCHANGED <<held, queue, running, batch, calls, saved, brightness,
                   userLevel, counts>>

\* The user's slider, or the desktop dimming an idle screen and lighting it on
\* activity; it blanks the screen by other means than the backlight.
Desktop ==
    /\ writes < Writes /\ writes' = writes + 1
    /\ brightness' \in Levels \ {0} /\ userLevel' = brightness'
    /\ UNCHANGED <<held, heldFor, queue, service, presses, acts, dialogs, crashes,
                   refused>>
-----------------------------------------------------------------------------
(* The service.                                                            *)

Looping == running /\ calls = << >> /\ batch = << >>

\* select() returns the device: main reads what there is.
Read ==
    /\ Looping /\ queue # << >>
    /\ batch' = queue /\ queue' = << >>
    /\ UNCHANGED <<held, heldFor, running, calls, pressed, saved, brightness,
                   userLevel, counts>>

\* Mutant: a brightness of 0 is saved as it is.
SavedAsIs == brightness

\* brightness(bl) or 1
SavedLevel == IF brightness = 0 THEN 1 ELSE brightness

\* The call wake() makes.
WakeCalls == IF saved = None THEN << >> ELSE <<saved>>

\* Mutant: wake() keeps what it has restored.
WakeKeeps == calls' = WakeCalls /\ saved' = saved

\* Screen.wake()
Wake == calls' = WakeCalls /\ saved' = None

\* Screen.toggle()
Toggle == IF saved = None
          THEN saved' = SavedLevel /\ calls' = <<0>>
          ELSE Wake

HandleDown ==
    /\ Head(batch) = "down"
    /\ pressed' = 0
    /\ UNCHANGED <<calls, saved, acts>>

\* Mutant: any release toggles.
HandleUpAlways ==
    /\ Head(batch) = "up"
    /\ pressed' = None /\ acts' = acts + 1 /\ Toggle

HandleUp ==
    /\ Head(batch) = "up"
    /\ IF pressed = None
       THEN UNCHANGED <<pressed, calls, saved, acts>>
       ELSE pressed' = None /\ acts' = acts + 1 /\ Toggle

\* Mutant: only the last event of a read is handled.
RestLast == << >>

\* The events of the batch after the one being handled.
Rest == Tail(batch)

\* The body of the loop over the events of one read.
HandleEvent ==
    /\ running /\ calls = << >> /\ batch # << >>
    /\ batch' = Rest
    /\ HandleDown \/ HandleUp
    /\ UNCHANGED <<held, heldFor, queue, running, brightness, userLevel,
                   presses, dialogs, crashes, writes, refused>>

\* Mutant: the time-out is not looked at while the screen is on.
DueDark == pressed = LongPress /\ saved # None

\* The time-out given to select() has passed.
Due == pressed = LongPress

\* select() returns nothing: the dialog, on a screen that is lit.
Timeout ==
    /\ Looping /\ queue = << >> /\ Due
    /\ pressed' = None
    /\ calls' = WakeCalls \o <<Dialog>>
    /\ saved' = None
    /\ acts' = acts + 1 /\ dialogs' = dialogs + 1
    /\ UNCHANGED <<held, heldFor, queue, running, batch, brightness, userLevel,
                   presses, crashes, writes, refused>>

\* What a call that is answered leaves.
Answered ==
    /\ brightness' = IF Head(calls) = Dialog THEN brightness ELSE Head(calls)
    /\ UNCHANGED refused

\* A SetBrightness that fails (check=False): the service goes on all the same.
Refused ==
    /\ Head(calls) # Dialog /\ refused < MaxRefused
    /\ refused' = refused + 1 /\ UNCHANGED brightness

\* set_brightness() and power_dialog(): a call over D-Bus, waited for.
Call ==
    /\ running /\ calls # << >>
    /\ calls' = Tail(calls)
    /\ Answered \/ Refused
    /\ UNCHANGED <<held, heldFor, queue, running, batch, pressed, saved,
                   userLevel, presses, acts, dialogs, crashes, writes>>

\* An exception or a kill; Restart=on-failure starts it again.
Crash ==
    /\ running /\ crashes < MaxCrashes
    /\ running' = FALSE /\ crashes' = crashes + 1
    /\ batch' = << >> /\ calls' = << >> /\ pressed' = None /\ saved' = None
    /\ queue' = << >>
    /\ UNCHANGED <<held, heldFor, brightness, userLevel, presses, acts, dialogs,
                   writes, refused>>

Restart ==
    /\ ~running /\ running' = TRUE
    /\ UNCHANGED <<held, heldFor, queue, batch, calls, pressed, saved,
                   brightness, userLevel, counts>>

Next == \/ Press \/ Release \/ Tick \/ Desktop
        \/ Read \/ HandleEvent \/ Timeout \/ Call \/ Crash \/ Restart

Spec == Init /\ [][Next]_vars

\* The service is scheduled and time passes.
FairSpec == /\ Spec
            /\ WF_vars(Tick) /\ WF_vars(Read) /\ WF_vars(HandleEvent)
            /\ WF_vars(Timeout) /\ WF_vars(Call) /\ WF_vars(Restart)
-----------------------------------------------------------------------------
\* `brightness(bl) or 1` (line 77): whatever is saved can light the screen again,
\* also when a restarted service finds it dark.
TypeOK ==
    /\ held \in BOOLEAN /\ heldFor \in 0 .. LongPress
    /\ queue \in Seq({"down", "up"}) /\ batch \in Seq({"down", "up"})
    /\ running \in BOOLEAN /\ calls \in Seq(Levels \cup {Dialog})
    /\ Len(calls) <= 2
    /\ pressed \in 0 .. LongPress \cup {None}
    /\ saved \in (Levels \ {0}) \cup {None}
    /\ brightness \in Levels /\ userLevel \in Levels
    /\ presses \in 0 .. MaxPresses /\ crashes \in 0 .. MaxCrashes
    /\ writes \in 0 .. Writes /\ refused \in 0 .. MaxRefused
    /\ acts \in Nat /\ dialogs \in 0 .. acts

\* One press does one thing: it toggles the screen or opens the dialog, never
\* both, whatever comes between its two events - a time-out, a read that
\* brought several events, a call that blocked, a restart.
OneActPerPress == acts + (IF pressed = None THEN 0 ELSE 1) <= presses

\* The dialog is for a key that is still down and has been down for LONG_PRESS:
\* a release is never left unread when the time-out is decided.
DialogOnlyWhileHeld ==
    [][dialogs' # dialogs => held /\ heldFor = LongPress]_vars

\* While nobody else writes, the service does not crash and no SetBrightness
\* fails, the screen is off exactly while there is something to restore, and
\* restored as it was.  (A wake whose call fails has forgotten the level: the
\* screen stays dark, and the next two presses light it at level 1.)
RestoresLevel ==
    calls = << >> /\ crashes = 0 /\ writes = 0 /\ refused = 0 =>
        /\ brightness = IF saved = None THEN userLevel ELSE 0
        /\ saved \in {None, userLevel}

\* What presses do to the screen, for each and for all of them.
PressesDoOneThing == OneActPerPress /\ RestoresLevel

\* No press stays undecided: it toggles, opens the dialog, or the service dies.
PressDecided == pressed # None ~> pressed = None

\* Line 5: "Short press toggles the panel backlight": when the call made for a
\* release returns, the screen has gone from lit to dark or from dark to lit.
ShortPressToggles ==
    [][calls # << >> /\ calls' = << >> /\ running' /\ Head(calls) # Dialog =>
         ((brightness' = 0) # (brightness = 0))]_vars
=============================================================================
