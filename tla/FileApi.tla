------------------------------ MODULE FileApi ------------------------------
(***************************************************************************)
(* What FatFs promises the program that calls it, in terms of the calls    *)
(* f_mount, f_open, f_read, f_lseek, f_close and their results only.       *)
(*                                                                         *)
(* A volume holds a file, or none, under each path.  A handle that f_open  *)
(* made is good until the file is closed or the volume mounted anew or     *)
(* unmounted.  A read gives the next bytes of the file, as many as asked   *)
(* for unless the file ends; a read that fails has given the first of them *)
(* and no other, and no call but f_close then succeeds on that handle.     *)
(***************************************************************************)
EXTENDS Integers, Sequences

CONSTANTS Requests,   \* calls: [op, path, n], n the bytes or the offset
          None        \* what is under a path that leads to no file

VARIABLES files,      \* under each path: [size, bytes], or None
          handle,     \* [good, file, pos, err]
          request,    \* the call that runs, or the last one
          result,     \* "RUNNING" while it runs, else its result
          data        \* the bytes it has given

apiVars == <<files, handle, request, result, data>>

Idle == result # "RUNNING"
Failures == {"FR_DISK_ERR", "FR_INT_ERR", "FR_NOT_READY", "FR_NO_FILESYSTEM",
             "FR_NOT_ENABLED"}
Absent == {"FR_NO_FILE", "FR_NO_PATH", "FR_INVALID_NAME"}
ShorterOf(a, b) == IF a < b THEN a ELSE b

NoHandle == [good |-> FALSE, file |-> None, pos |-> 0, err |-> "FR_OK"]
Spoilt(res) == [handle EXCEPT !.err = res, !.pos = 0]

Init ==
  /\ handle = NoHandle /\ request \in Requests /\ result = "NONE" /\ data = <<>>

Begin(q) ==
  /\ Idle
  /\ request' = q /\ result' = "RUNNING" /\ data' = <<>>
  /\ UNCHANGED <<files, handle>>

Running(op) == result = "RUNNING" /\ request.op = op /\ UNCHANGED <<files, request>>

MountEnds ==
  /\ Running("mount") /\ data' = <<>>
  /\ result' \in {"FR_OK"} \cup Failures
  /\ handle' = NoHandle

UnmountEnds ==
  /\ Running("unmount") /\ data' = <<>>
  /\ result' = "FR_OK"
  /\ handle' = NoHandle

OpenEnds ==
  /\ Running("open") /\ data' = <<>>
  /\ \/ /\ files[request.path] # None
        /\ result' = "FR_OK"
        /\ handle' = [good |-> TRUE, file |-> files[request.path], pos |-> 0,
                      err |-> "FR_OK"]
     \/ /\ \/ result' \in Failures
           \/ result' \in Absent /\ files[request.path] = None
        /\ handle' = NoHandle

(* f_read, f_lseek and f_close refuse a handle that is not good; the       *)
(* first two repeat the error that spoilt it.                              *)
Refused ==
  \/ ~handle.good /\ result' = "FR_INVALID_OBJECT"
  \/ /\ handle.good /\ handle.err # "FR_OK"
     /\ request.op # "close" /\ result' = handle.err

ReadEnds ==
  /\ Running("read")
  /\ \/ Refused /\ data' = <<>> /\ UNCHANGED handle
     \/ /\ handle.good /\ handle.err = "FR_OK"
        /\ LET n == ShorterOf(request.n, handle.file.size - handle.pos)
               Next(k) == SubSeq(handle.file.bytes, handle.pos + 1, handle.pos + k)
           IN  \/ /\ result' = "FR_OK"
                  /\ data' = Next(n) /\ Len(data') = n
                  /\ handle' = [handle EXCEPT !.pos = @ + n]
               \/ /\ result' \in Failures
                  /\ \E k \in 0 .. n : data' = Next(k) /\ Len(data') = k
                  /\ handle' = Spoilt(result')

SeekEnds ==
  /\ Running("seek") /\ data' = <<>>
  /\ \/ Refused /\ UNCHANGED handle
     \/ /\ handle.good /\ handle.err = "FR_OK"
        /\ \/ /\ result' = "FR_OK"
              /\ \/ handle' = [handle EXCEPT !.pos = ShorterOf(request.n, handle.file.size)]
                 \/ handle.file.bytes = <<>> /\ UNCHANGED handle
           \/ /\ result' \in Failures
              /\ handle' = Spoilt(result')

CloseEnds ==
  /\ Running("close") /\ data' = <<>>
  /\ \/ Refused /\ UNCHANGED handle
     \/ handle.good /\ result' = "FR_OK" /\ handle' = NoHandle

Next ==
  \/ \E q \in Requests : Begin(q)
  \/ MountEnds \/ UnmountEnds \/ OpenEnds \/ ReadEnds \/ SeekEnds \/ CloseEnds

Spec == Init /\ [][Next]_apiVars
=============================================================================
