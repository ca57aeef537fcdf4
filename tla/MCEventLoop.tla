----------------------------- MODULE MCEventLoop -----------------------------
(***************************************************************************)
(* Commands for EventLoop: "h" is supported, "x" is the application's.     *)
(***************************************************************************)
EXTENDS EventLoop

MCLetters == {"h", "x"}

\* "j" lies behind CTRL_CMD_DELIMETER.
MCDelimiters == {SP, "j"}
MCSupported == {<<"h">>}

\* With and without an argument, without NUL, and longer than ctrl_msg.
MCDatagrams == {<<"h", NUL>>, <<"x", SP, "h", "h", NUL>>, <<"x", "j", "h">>,
                <<"h", SP, "x", "x", SP, "x", "h">>}
=============================================================================
