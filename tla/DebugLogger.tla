------------------------------ MODULE DebugLogger ------------------------------
(***************************************************************************)
(* The debug log (internal/debuglogger): one logger, with one set of       *)
(* buffers and one directory, serves every request in flight.  What a      *)
(* request logs is a sequence of pieces <<request, number>>; a file also   *)
(* tells, for the properties, which request wrote it.                      *)
(*                                                                         *)
(* No line of the application log reaches the logger: its slog handler is  *)
(* installed nowhere, so app_logs.txt, which is not written when empty, is *)
(* left out.  So are failures of the disk.                                 *)
(***************************************************************************)
EXTENDS Naturals, Sequences

CONSTANTS Requests, Nobody

VARIABLES
  mode,      \* "off", "errors" or "all", for the life of the process
  buffers,   \* what mode "errors" keeps in memory
  files,     \* the directory
  flush      \* each request in FlushOnError

logVars == <<mode, buffers, files, flush>>

Logs == {"request", "kiro", "raw", "modified"}

Empty      == [log \in Logs |-> <<>>]
NoFile     == [by |-> Nobody, pieces |-> <<>>]
NoFiles    == [file \in Logs \cup {"error"} |-> NoFile]
NotFlushing == [pc |-> "no", copy |-> Empty]

Pieces == Seq(Requests \X Nat)

LogTypeOK ==
  /\ mode \in {"off", "errors", "all"}
  /\ buffers \in [Logs -> Pieces]
  /\ files \in [Logs \cup {"error"} -> [by : Requests \cup {Nobody}, pieces : Pieces]]
  /\ flush \in [Requests -> [pc : {"no", "recreate", "copy", "clear", "error"} \cup Logs,
                             copy : [Logs -> Pieces]]]

LogInit ==
  /\ buffers = Empty
  /\ files = NoFiles
  /\ flush = [r \in Requests |-> NotFlushing]

-----------------------------------------------------------------------------
clearBuffers == buffers' = Empty
recreateDir  == files' = NoFiles

\* Fault: the buffers of the last request are kept.
PrepareNothing == UNCHANGED logVars

\* PrepareNewRequest, in two parts: the second only when files are written at
\* once.
PrepareBuffers == clearBuffers /\ UNCHANGED <<mode, files, flush>>
PrepareDir     == recreateDir /\ UNCHANGED <<mode, buffers, flush>>

Write(file, r, pieces) == files' = [files EXCEPT ![file] = [by |-> r, pieces |-> pieces]]

\* Fault: the first body counts.
logFirstBody(log, r, n) ==
  /\ \/ mode = "all" /\ Write(log, r, <<<<r, n>>>>) /\ UNCHANGED buffers
     \/ mode = "errors" /\ UNCHANGED files
        /\ buffers' = [buffers EXCEPT ![log] = IF @ = <<>> THEN <<<<r, n>>>> ELSE @]
     \/ mode = "off" /\ UNCHANGED <<buffers, files>>
  /\ UNCHANGED <<mode, flush>>

\* LogRequestBody and LogKiroRequestBody: the last body counts.
logBody(log, r, n) ==
  /\ \/ mode = "all" /\ Write(log, r, <<<<r, n>>>>) /\ UNCHANGED buffers
     \/ mode = "errors" /\ buffers' = [buffers EXCEPT ![log] = <<<<r, n>>>>]
        /\ UNCHANGED files
     \/ mode = "off" /\ UNCHANGED <<buffers, files>>
  /\ UNCHANGED <<mode, flush>>

\* LogRawChunk and LogModifiedChunk.
logChunk(log, r, n) ==
  /\ \/ mode = "all" /\ Write(log, r, Append(files[log].pieces, <<r, n>>))
        /\ UNCHANGED buffers
     \/ mode = "errors" /\ buffers' = [buffers EXCEPT ![log] = Append(@, <<r, n>>)]
        /\ UNCHANGED files
     \/ mode = "off" /\ UNCHANGED <<buffers, files>>
  /\ UNCHANGED <<mode, flush>>

-----------------------------------------------------------------------------
\* FlushOnError in mode "errors": is there anything?  Then the directory is made
\* anew, the buffers copied, each file that is not empty written, and the
\* buffers cleared; other requests may run between any two of these.
FlushTo(r, pc) == flush' = [flush EXCEPT ![r].pc = pc]

HasData == \E log \in Logs : buffers[log] # <<>>

StartFlush(r) ==
  /\ \/ mode = "errors" /\ HasData /\ FlushTo(r, "recreate")
     \/ mode = "errors" /\ ~HasData /\ UNCHANGED flush
     \/ mode = "all" /\ FlushTo(r, "error")
     \/ mode = "off" /\ UNCHANGED flush
  /\ UNCHANGED <<mode, buffers, files>>

Flushing(r) == flush[r].pc # "no"

After == [request |-> "kiro", kiro |-> "raw", raw |-> "modified", modified |-> "error"]

FlushDir(r) ==
  /\ flush[r].pc = "recreate"
  /\ recreateDir /\ FlushTo(r, "copy") /\ UNCHANGED <<mode, buffers>>

FlushCopy(r) ==
  /\ flush[r].pc = "copy"
  /\ flush' = [flush EXCEPT ![r] = [pc |-> "request", copy |-> buffers]]
  /\ UNCHANGED <<mode, buffers, files>>

FlushFile(r) ==
  LET log == flush[r].pc
  IN  /\ log \in Logs
      /\ IF flush[r].copy[log] # <<>> THEN Write(log, r, flush[r].copy[log])
         ELSE UNCHANGED files
      /\ FlushTo(r, After[log])
      /\ UNCHANGED <<mode, buffers>>

\* In mode "all" nothing but error_info.json is left to write.
FlushError(r) ==
  /\ flush[r].pc = "error"
  /\ Write("error", r, <<>>)
  /\ flush' = [flush EXCEPT ![r] = IF mode = "all" THEN NotFlushing
                                  ELSE [@ EXCEPT !.pc = "clear"]]
  /\ UNCHANGED <<mode, buffers>>

FlushClear(r) ==
  /\ flush[r].pc = "clear"
  /\ clearBuffers /\ flush' = [flush EXCEPT ![r] = NotFlushing]
  /\ UNCHANGED <<mode, files>>

FlushStep(r) ==
  FlushDir(r) \/ FlushCopy(r) \/ FlushFile(r) \/ FlushError(r) \/ FlushClear(r)

DiscardBuffers ==
  /\ IF mode = "errors" THEN clearBuffers ELSE UNCHANGED buffers
  /\ UNCHANGED <<mode, files, flush>>
=============================================================================
