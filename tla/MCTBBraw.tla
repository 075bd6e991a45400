------------------------------ MODULE MCTBBraw ------------------------------
(* TBBraw in small settings.                                                     *)
EXTENDS TBBraw

\* Two dipoles, new stamps in which fixDateNew repairs the seconds that need it.
NewStamps == [clock |-> 200, halfParity |-> 0, stampStyle |-> "new", fixTimes |-> 2,
              dipoles |-> {<<1, 1>>, <<1, 2>>}, inOrder |-> FALSE, lastFrame |-> 6,
              maxBlocks |-> 4]

\* Four dipoles of two stations, for tables of two dipoles and one station.
Crowded == [NewStamps EXCEPT !.dipoles = {<<1, 1>>, <<1, 2>>, <<1, 3>>, <<2, 1>>},
                             !.lastFrame = 1, !.maxBlocks = 5]

\* Stamps that are right, left as they are.
RightStamps == [NewStamps EXCEPT !.stampStyle = "right", !.fixTimes = 0,
                                 !.dipoles = {<<1, 1>>}]

\* One dipole with old stamps.
OldStamps == [clock |-> 200, halfParity |-> 1, stampStyle |-> "old", fixTimes |-> 1,
              dipoles |-> {<<1, 1>>}, inOrder |-> TRUE, lastFrame |-> 14, maxBlocks |-> 14]

\* Two dipoles with old stamps at 160 MHz.
SlowClock == [clock |-> 160, halfParity |-> 1, stampStyle |-> "old", fixTimes |-> 1,
              dipoles |-> {<<1, 1>>, <<1, 2>>}, inOrder |-> FALSE, lastFrame |-> 6,
              maxBlocks |-> 4]

RepairedSettings == {NewStamps, Crowded, RightStamps, OldStamps, SlowClock}

\* Old stamps again, of two dipoles.
OldStampsOfTwo == {[OldStamps EXCEPT !.dipoles = {<<1, 1>>, <<1, 2>>},
                                     !.lastFrame = 8, !.maxBlocks = 18]}

\* The seconds that begin in the middle of a frame are the odd ones.
OddHalves == {[NewStamps EXCEPT !.halfParity = 1, !.dipoles = {<<1, 1>>},
                                !.inOrder = TRUE, !.lastFrame = 8, !.maxBlocks = 9]}

\* One dipole, with frames from far apart.
FarApart == {[NewStamps EXCEPT !.dipoles = {<<1, 1>>}, !.lastFrame = 7, !.maxBlocks = 3]}
=============================================================================
