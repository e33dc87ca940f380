---- MODULE MCChromeBully ----
(* ChromeBully for TLC: one plain version and one that sanitize left a dash in. *)
EXTENDS ChromeBully

PlainAndDashed == {<<"120.0">>, <<"1.0", "beta">>}
==============================
