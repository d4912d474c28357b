----------------------------- MODULE ApiProcess -----------------------------
(***************************************************************************)
(* What an API process promises whoever sends it requests, without its     *)
(* steps: it answers on its socket only in a life in which it has loaded   *)
(* its files, and before the chmod only to peers of its own uid.           *)
(***************************************************************************)
VARIABLE life

Lives == {"down", "loading", "loaded", "private", "serving"}

\* The next stage of a start; a process without SOCKET_PATH has no chmod to do.
Advance(a, b) ==
    <<a, b>> \in {<<"down", "loading">>, <<"loading", "loaded">>, <<"loaded", "private">>,
                  <<"loaded", "serving">>, <<"private", "serving">>}

\* Any life may end at any moment.
Die(a, b) == a # "down" /\ b = "down"

Init == life = "down"

Next == \E b \in Lives : (Advance(life, b) \/ Die(life, b)) /\ life' = b

Spec == Init /\ [][Next]_life
=============================================================================
