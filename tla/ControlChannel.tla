--------------------------- MODULE ControlChannel ---------------------------
(***************************************************************************)
(* The control channel of a daemon: datagrams to the UDP socket that       *)
(* SetCtrlSockFile opens are commands.  OnCtrlMsg                          *)
(* (framework/rapidapp_framework_imp.cpp) copies one into the static array *)
(* ctrl_msg, libevent_get_arguments cuts it into arguments in place, and   *)
(* AppControlDispatcher (framework/rapidapp_ctrl_cmd_keyword.h) calls the  *)
(* listener for the first one, or the application.                         *)
(*                                                                         *)
(* Characters matter here, since what is left in ctrl_msg by one command   *)
(* is under the next one, and what lies behind ctrl_msg in memory may be   *)
(* read and written too.  A text is a sequence of NUL, delimiters and      *)
(* letters.                                                                *)
(***************************************************************************)
EXTENDS Integers, Sequences, SequencesExt

CONSTANTS
    Letters,            \* characters other than NUL and the delimiters
    Delimiters,         \* what strtok_r is given, see below
    Datagrams,          \* what may be sent
    MaxDatagrams,       \* bound: datagrams sent
    Supported,          \* keys of commad_dictionary_
    MAX_CTRL_MSG_LEN,   \* size of ctrl_msg
    BEHIND,             \* places behind ctrl_msg before there are two NULs
    MAX_ARGUMENTS_NUM   \* size of argv

NUL == "NUL"
Chars == Letters \cup Delimiters \cup {NUL}

(***************************************************************************)
(* strtok_r takes a string of delimiters and is given the address of the   *)
(* single character CTRL_CMD_DELIMETER: the delimiters are SP and whatever *)
(* follows that constant in memory, up to a NUL.                           *)
(***************************************************************************)
SP == "SP"

ASSUME ControlAssumption ==
    /\ {MAX_CTRL_MSG_LEN, MAX_ARGUMENTS_NUM} \subseteq Nat \ {0}
    /\ {MaxDatagrams, BEHIND} \subseteq Nat
    /\ SP \in Delimiters
    /\ Letters \cap Delimiters = {} /\ NUL \notin Letters \cup Delimiters
    /\ \A d \in Datagrams \cup Supported : d # <<>> /\ d \in Seq(Chars)

VARIABLES
    arrived,   \* datagrams in the kernel
    input,     \* what bufferevent_read has left in the buffer of the event
    ctrl_msg,  \* the static array, from index 1
    command,   \* history: the last command, see OnCtrlMsg
    sent       \* datagrams sent so far

ctrlVars == <<arrived, input, ctrl_msg, command, sent>>

Nobody == [text |-> <<>>, clean |-> TRUE, argv |-> <<>>, to |-> "NOBODY", inside |-> TRUE]

\* SetCtrlSockFile: the socket is bound and the event is ready to read.
ControlInit ==
    /\ arrived = <<>> /\ input = <<>>
    /\ ctrl_msg = [i \in 1 .. MAX_CTRL_MSG_LEN |-> NUL]
    /\ command = Nobody
    /\ sent = 0
-----------------------------------------------------------------------------
(***************************************************************************)
(* C strings in an array: the first place from i on whose character is in  *)
(* stop, and the string at i.                                              *)
(***************************************************************************)
FirstOf(msg, i, stop) ==
    CHOOSE j \in i .. Len(msg) : msg[j] \in stop /\ \A k \in i .. j - 1 : msg[k] \notin stop

StringAt(msg, i) == SubSeq(msg, i, FirstOf(msg, i, {NUL}) - 1)

(***************************************************************************)
(* strtok_r with a new string each time: skip delimiters, find the end of  *)
(* the token, close it, and leave ptr behind it.  [found, msg, ptr]        *)
(***************************************************************************)
strtok_r(msg, start) ==
    LET token == FirstOf(msg, start, Chars \ Delimiters)
        end == FirstOf(msg, token, Delimiters \cup {NUL})
    IN  IF msg[token] = NUL
          THEN [found |-> FALSE, msg |-> msg, ptr |-> start]
          ELSE [found |-> TRUE,
                msg |-> [msg EXCEPT ![end] = NUL],
                ptr |-> IF msg[end] = NUL THEN end ELSE end + 1]

(***************************************************************************)
(* One turn of the loop of libevent_get_arguments.  It takes argv[i] from  *)
(* the place it started at, overwrites what ptr points to and starts       *)
(* behind that, the end of the string included.                            *)
(***************************************************************************)
Entered(text) == [msg |-> text, start |-> 1, starts |-> <<>>, ended |-> FALSE]

Turn(s) ==
    LET t == strtok_r(s.msg, s.start)
    IN  CASE s.ended -> s
          [] ~s.ended /\ t.found /\ Len(s.starts) < MAX_ARGUMENTS_NUM ->
               [msg |-> [t.msg EXCEPT ![t.ptr] = NUL], start |-> t.ptr + 1,
                starts |-> Append(s.starts, s.start), ended |-> FALSE]
          [] OTHER -> [msg |-> t.msg, start |-> s.start, starts |-> s.starts, ended |-> TRUE]

(***************************************************************************)
(* Where the loop stands after n turns; the last one is a turn without an  *)
(* argument.                                                               *)
(***************************************************************************)
Turns(text) ==
    LET turns[n \in 0 .. MAX_ARGUMENTS_NUM + 1] ==
          IF n = 0 THEN Entered(text) ELSE Turn(turns[n - 1])
    IN  turns

libevent_get_arguments(text) ==
    LET parsed == Turns(text)[MAX_ARGUMENTS_NUM + 1]
    IN  [msg |-> parsed.msg, start |-> parsed.start,
         argv |-> [i \in DOMAIN parsed.starts |-> StringAt(parsed.msg, parsed.starts[i])]]

(***************************************************************************)
(* AppControlDispatcher::Dispatch; what it does not know goes to           *)
(* OnRecvCtrl of the application.                                          *)
(***************************************************************************)
Dispatch(argv) == IF argv # <<>> /\ argv[1] \in Supported THEN "LISTENER" ELSE "APP"
-----------------------------------------------------------------------------
SendDatagram(d) ==
    /\ sent < MaxDatagrams
    /\ arrived' = Append(arrived, d)
    /\ sent' = sent + 1
    /\ UNCHANGED <<input, ctrl_msg, command>>

(***************************************************************************)
(* What bufferevent_read copies into ctrl_msg: characters over those of    *)
(* earlier commands, and a NUL in the last place.                          *)
(***************************************************************************)
Copied(all, len) ==
    [SubSeq(all, 1, len) \o SubSeq(ctrl_msg, len + 1, MAX_CTRL_MSG_LEN)
       EXCEPT ![MAX_CTRL_MSG_LEN] = NUL]

(***************************************************************************)
(* The memory behind ctrl_msg may hold anything, and other code may write  *)
(* to it; there are two NULs in a row somewhere.                           *)
(***************************************************************************)
Behind == {rest \o <<NUL, NUL>> : rest \in [1 .. BEHIND -> Chars]}

(***************************************************************************)
(* ctrl_msg is cut into arguments and the command dispatched.  inside: no  *)
(* token was looked for behind ctrl_msg and nothing was written there.     *)
(***************************************************************************)
Handles(msg) ==
    \E rest \in Behind :
        LET parsed == libevent_get_arguments(msg \o rest)
        IN  /\ ctrl_msg' = SubSeq(parsed.msg, 1, MAX_CTRL_MSG_LEN)
            /\ command' = [text |-> Head(arrived), clean |-> input = <<>>,
                           argv |-> parsed.argv, to |-> Dispatch(parsed.argv),
                           inside |-> /\ parsed.start <= MAX_CTRL_MSG_LEN
                                      /\ \A i \in DOMAIN rest :
                                            parsed.msg[MAX_CTRL_MSG_LEN + i] = rest[i]]

\* Mutant: the last character, the NUL, is not copied.
OnCtrlMsg_ShortCopy ==
    LET all == input \o Head(arrived)
        len == (IF Len(all) < MAX_CTRL_MSG_LEN THEN Len(all) ELSE MAX_CTRL_MSG_LEN) - 1
    IN  /\ arrived # <<>>
        /\ arrived' = Tail(arrived)
        /\ input' = SubSeq(all, len + 2, Len(all))
        /\ Handles(Copied(all, len))
        /\ UNCHANGED sent

(***************************************************************************)
(* OnCtrlMsg.  The event has read one more datagram; bufferevent_read      *)
(* takes as much as ctrl_msg holds and leaves the rest.                    *)
(***************************************************************************)
OnCtrlMsg ==
    LET all == input \o Head(arrived)
        len == IF Len(all) < MAX_CTRL_MSG_LEN THEN Len(all) ELSE MAX_CTRL_MSG_LEN
    IN  /\ arrived # <<>>
        /\ arrived' = Tail(arrived)
        /\ input' = SubSeq(all, len + 1, Len(all))
        /\ Handles(Copied(all, len))
        /\ UNCHANGED sent
-----------------------------------------------------------------------------
ControlTypeOK ==
    /\ arrived \in Seq(Datagrams) /\ input \in Seq(Chars)
    /\ ctrl_msg \in [1 .. MAX_CTRL_MSG_LEN -> Chars]
    /\ Len(command.argv) <= MAX_ARGUMENTS_NUM
    /\ sent \in 0 .. MaxDatagrams

\* The first word of a text: up to its first delimiter or NUL.
FirstWord(text) ==
    SubSeq(text, 1, FirstOf(text, 1, Delimiters \cup {NUL}) - 1)

\* A datagram that begins with a word, brings its NUL along and fits into ctrl_msg.
Whole(text) == /\ Head(text) \in Letters /\ Last(text) = NUL
               /\ Len(text) <= MAX_CTRL_MSG_LEN
=============================================================================
