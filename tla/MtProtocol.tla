------------------------------ MODULE MtProtocol ------------------------------
(***************************************************************************)
(* The kernel's multi-touch protocol (type B) as the readers of an evdev   *)
(* touchscreen rely on it, one step per SYN_REPORT: a slot is empty or     *)
(* holds one contact; a contact ends by its slot becoming empty, never by  *)
(* another contact taking the slot over; no two slots hold the same        *)
(* contact; BTN_TOUCH says whether there is any.                           *)
(***************************************************************************)
CONSTANTS Slots, Ids, NoContact

VARIABLES contact, btnTouch

Init == /\ contact = [s \in Slots |-> NoContact]
        /\ btnTouch = FALSE

Held(c) == {s \in Slots : c[s] # NoContact}

Sync ==
    /\ contact' \in [Slots -> Ids \cup {NoContact}]
    /\ \A s \in Held(contact) \cap Held(contact') : contact'[s] = contact[s]
    /\ \A s, t \in Held(contact') : contact'[s] = contact'[t] => s = t
    /\ btnTouch' = (Held(contact') # {})

\* The device goes away and a new one appears.
Replug == /\ contact' = [s \in Slots |-> NoContact]
          /\ btnTouch' = FALSE

Next == Sync \/ Replug

Spec == Init /\ [][Next]_<<contact, btnTouch>>
=============================================================================
