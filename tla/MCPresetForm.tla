----------------------------- MODULE MCPresetForm -----------------------------
(* An instance of PresetForm for TLC: a text of every spelling, and times  *)
(* around the defaults and at both ends of the day.                        *)
EXTENDS PresetForm

MCClockTexts ==
    [as : {"empty", "spaces", "junk"}, at : {<<0, 0, 0>>}]
    \union [as : {"short"}, at : {<<7, 30, 0>>, <<0, 0, 0>>}]
    \union [as : {"padded"}, at : {<<7, 30, 0>>, <<0, 0, 0>>, <<22, 0, 3>>, <<24, 0, 0>>}]

MCDurationTexts ==
    [as : {"empty", "spaces", "junk"}, ms : {0}]
    \union [as : {"plain"}, ms : {0, 500}]
    \union [as : {"loose", "padded"}, ms : {500}]
    \union [as : {"compound"}, ms : {5400000, 0 - 500}]

MCDayLists ==
    {[codes |-> {}, entries |-> 0],
     [codes |-> {""}, entries |-> 1],
     [codes |-> {"SUN", "MON"}, entries |-> 2],
     [codes |-> {"WED", ""}, entries |-> 32],
     [codes |-> {"WED"}, entries |-> 33],
     [codes |-> {"SAT", "EVERY"}, entries |-> 2]}

MCListing == <<<<8, 15, 0>>, <<7, 30, 0>>, <<7, 22, 0>>, <<7, 22, 0>>, <<8, 7, 0>>>>
===============================================================================
