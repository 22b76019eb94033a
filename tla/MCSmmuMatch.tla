----------------------------- MODULE MCSmmuMatch -----------------------------
(***************************************************************************)
(* A small SMMU: eight streams, four of them reachable through one mask,   *)
(* and register files with room, without room, without a usable USB slot.  *)
(***************************************************************************)
EXTENDS SmmuMatch, FiniteSets

MCBits     == 0 .. 2
MCMaskBits == 0 .. 1
MCUsbSid   == {2}
MCContexts == {"usb", "disp"}

Off          == [valid |-> FALSE, id |-> {0, 1}, mask |-> {}]
E(id, mask)  == [valid |-> TRUE, id |-> id, mask |-> mask]
Route(t, cb) == [type |-> t, cb |-> cb]
Stale        == Route("bypass", "disp")

Table(entries, routes, transl, pd) ==
    [nsmr |-> Len(entries), clientpd |-> pd,
     smr  |-> [i \in 0 .. (Len(entries) - 1) |-> entries[i + 1]],
     s2cr |-> [i \in 0 .. (Len(entries) - 1) |-> routes[i + 1]],
     translating |-> transl]

Usb == E({2}, {})
Dsp == E({0, 2}, {1})   \* two streams of the display
Ctx == Route("context", "usb")
Dcx == Route("context", "disp")

MCBoot ==
    { Table(<<Usb, Off, Dsp, Off>>, <<Ctx, Stale, Dcx, Stale>>, {}, FALSE),
      Table(<<Off, Usb, Off>>, <<Stale, Ctx, Stale>>, {"disp"}, FALSE),
      Table(<<Dsp, E({2}, {1})>>, <<Dcx, Ctx>>, {}, FALSE),
      Table(<<Usb, Dsp, Off>>, <<Ctx, Dcx, Stale>>, {"usb"}, FALSE),
      Table(<<Usb, Dsp, Off>>, <<Route("fault", "usb"), Dcx, Stale>>, {}, FALSE),
      Table(<<Dsp, Off>>, <<Dcx, Stale>>, {}, FALSE),
      Table(<<Usb, Off>>, <<Ctx, Stale>>, {}, TRUE),
      Table(<<>>, <<>>, {}, FALSE),
      Table(<<Usb, Off, Off, Off, Off>>, <<Ctx, Stale, Stale, Stale, Stale>>,
            {}, FALSE) }

R(sid, mask) == [sid |-> sid, mask |-> mask]

\* Single streams, ranges, unnormalised and out-of-range masks.
MCRequests ==
    { R({}, {}), R({1}, {}), R({0}, {}), R({}, {0}), R({0}, {0}),
      R({1, 2}, {1}), R({}, {0, 1}), R({2}, {1}), R({1}, {2}) }

MCCalls ==
    { [check |-> FALSE, args |-> <<r1, r2>>] : r1 \in MCRequests, r2 \in MCRequests }
      \cup { [check |-> FALSE, args |-> <<r>>] : r \in MCRequests }
      \cup { [check |-> TRUE, args |-> <<r, R({}, {})>>] : r \in MCRequests }

MCRejected == {{0, 1}}
=============================================================================
