------------------------------ MODULE MCImuLink -------------------------------
(* ImuLink for TLC. A buffer of four bytes and frames shorter than it, as long, *)
(* longer, and one with an FD inside that is followed by another FD.            *)
EXTENDS ImuLink

FramesOf(inner) == {Append(s, FD) : s \in inner}
MCFrames == FramesOf({<<"data">>, <<"data", "data", "data">>,
                      <<"data", "data", "data", "data">>, <<"data", FD, FD, "data">>})

===============================================================================
