--------------------------- MODULE MCMgConnection ---------------------------
(***************************************************************************)
(* MgConnection with clients whose heads end early in the buffer, at its   *)
(* last byte, behind it, or never, and with bodies that are partly in the  *)
(* buffer and partly not.                                                  *)
(***************************************************************************)
EXTENDS MgConnection

Plain == <<"txt", "nl", "nl">>
Crlf == <<"nl", "cr", "nl">>

MCStreams ==
    {Plain \o <<"txt", "ctl", "nl", "nl">>,
     Crlf \o <<"txt">>,
     <<"txt", "cr">> \o Crlf \o <<"txt", "txt">>,
     <<"txt", "txt", "txt", "txt">> \o Crlf,
     <<"txt", "ctl", "nl", "nl">>,
     <<"txt", "nl">>}
\* Bodies: not announced, empty, within the buffer, longer than what is sent, of
\* a negative length that is less than a long head and more than a short one,
\* and of one that is positive when it is made an int.
MCLengths == {-1, 0, 2, 6, -4, -9}
=============================================================================
