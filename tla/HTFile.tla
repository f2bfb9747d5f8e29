-------------------------------- MODULE HTFile ---------------------------------
(***************************************************************************)
(* HTFile.c and HTTelnet.c: the loads that need no server of their own.    *)
(* "file" and "ftp" addresses both come to HTLoadFile, which looks for a   *)
(* local or mounted file first and then asks the node named for it by FTP. *)
(***************************************************************************)
EXTENDS HTInput

CONSTANT ThisHost     \* HTHostName()

VARIABLES pc, request, status, text

HT_LOADED    == 29999
HT_NO_ACCESS == -10
HT_NO_DATA   == -9999
LoadError403 == -403

Return(n, value, shown) ==
  /\ net' = n /\ pc' = "return" /\ status' = value /\ text' = shown
  /\ UNCHANGED request

(* HTParseFile: its result is not looked at, so that a format that cannot  *)
(* be converted is loaded without a text.  HTFileCopy reads into the       *)
(* memory of the input buffer.                                             *)
LocalFile ==
  /\ pc = "file"
  /\ \/ Return(Overwritten(net), HT_LOADED, TRUE)
     \/ Return(net, HT_LOADED, FALSE)

(* No such file, or HTSecure. *)
RemoteFile ==
  /\ pc = "file" /\ request.host # ThisHost
  /\ pc' = "ftp" /\ UNCHANGED << net, request, status, text >>

NoFile ==
  pc = "file" /\ request.host = ThisHost /\ Return(net, LoadError403, FALSE)

(* A session has no document: it was run, it is forbidden, there is no     *)
(* program for it, or its output was to go to a stream.                    *)
HTLoadTelnet ==
  /\ pc = "telnet"
  /\ \E value \in { HT_NO_DATA, -1, HT_NO_ACCESS } : Return(net, value, FALSE)

HTLoadFile == LocalFile \/ RemoteFile \/ NoFile

=============================================================================
