---------------------------- MODULE FileTransfer ----------------------------
(***************************************************************************)
(* One streaming file transfer from end to end, on top of its admission by *)
(* TransferManager: the HTTP handlers readFileContent and writeFileContent *)
(* (apps/control-plane-go/internal/httpapi/server.go), OpenFile and        *)
(* WriteFileStream (internal/backend/kubernetes/transfer.go) and the       *)
(* helper that runs in the sandbox                                         *)
(* (images/runtime/file-transfer/main.go).                                 *)
(*                                                                         *)
(* Each lease has one workspace path that all its transfers name.  An      *)
(* operation is one transfer: an HTTP handler, the Pod exec it runs and    *)
(* the helper's process.  The helper is not stopped by the end of the      *)
(* exec: it sees its streams close, and runs on.  Deadlines and shutdown   *)
(* are in LeaseBackend; here a context ends because it is cancelled.       *)
(***************************************************************************)
EXTENDS TransferManager, Sequences

CONSTANTS
    Contents,   \* contents clients declare and other processes write: sequences of blocks
    Bodies,     \* request bodies as they arrive
    Original,   \* what the path holds at first, if it names a file
    MaxBytes,   \* the 64 MiB limit, in blocks
    Initial,    \* the inode of Original
    Absent,     \* the path names nothing
    Directory,  \* the path names something that is not a regular file
    None,
    MaxEdits    \* bound: changes made by other processes of the sandbox

VARIABLES
    req,        \* operation -> what the client asked for
    pc,         \* operation -> where its handler is
    result,     \* operation -> the answer
    told,       \* history: operations that the client or stopLease has cancelled
    moved,      \* operation -> blocks read from the request body or written to the response
    run,        \* operation -> runner.Run: not called, running, returned nil or an error
    helper,     \* operation -> where its helper is
    marker,     \* operation -> the ASP1 line the helper wrote to stdout
    file,       \* lease -> the inode its path names
    data,       \* inode -> content
    source,     \* operation -> the inode a download opened
    temps,      \* operations whose temporary file has a name in the workspace
    published,  \* history: uploads whose temporary file was renamed to the path
    edits       \* changes made by other processes of the sandbox

handlers == <<req, pc, result, told, moved, run>>
sandbox == <<helper, marker, file, data, source, temps, published, edits>>
svars == <<now, tvars, handlers, sandbox>>

----------------------------------------------------------------------------
(* State.                                                                  *)

Inodes == Ops \cup {Initial}

\* What the helper reports as ASP1 ERR, what the control plane answers, and the
\* answers that blame the request.
HelperErrors == {"INVALID_PATH", "FILE_NOT_FOUND", "TRANSFER_TOO_LARGE",
    "CONTENT_LENGTH_MISMATCH", "CONTENT_DIGEST_MISMATCH", "TRANSFER_FAILED"}
ValidationErrors == HelperErrors \ {"TRANSFER_FAILED"}
Answers == ValidationErrors \cup
    {"OK", "ABORTED", "FILE_TRANSFER_FAILED", "TRANSFER_LIMIT_REACHED", "BROKEN"}

\* A content of the workspace: what clients send, and what others make of it.
Blocks == UNION {{c[i] : i \in DOMAIN c} : c \in Contents \cup Bodies \cup {Original}}
TooLong == [i \in 1 .. MaxBytes + 1 |-> CHOOSE b \in Blocks : TRUE]
AnyContent == UNION {[1 .. n -> Blocks] : n \in 0 .. MaxBytes + 1}

NoReq == [kind |-> None, lid |-> None, declared |-> <<>>, body |-> <<>>]

\* Content-Length and Content-Digest are the length and the identity of declared
\* (see equalDigest).  net/http and MaxBytesReader give a body of at most
\* Content-Length bytes.
Uploads == {r \in [kind : {"upload"}, lid : LeaseIDs, declared : Contents \cup {TooLong},
                    body : Bodies] : Len(r.body) <= Len(r.declared)}
Downloads == [kind : {"download"}, lid : LeaseIDs, declared : {<<>>}, body : {<<>>}]

Markers == [code : HelperErrors \cup {"OK"}, content : Seq(Blocks)]
Marker(code, content) == [code |-> code, content |-> content]

Runs == {"running", "ok", "error"}
Helpers == {"open", "copy", "report", "send", "exit0", "exit1", "killed"}

ASSUME FileAssumption ==
    /\ MaxBytes \in Nat
    /\ Blocks # {} /\ Contents \cup Bodies \cup {Original} \subseteq Seq(Blocks)
    /\ Initial \notin Ops /\ Absent \notin Inodes /\ Directory \notin Inodes
    /\ None \notin Runs \cup Helpers \cup Answers /\ None \notin Markers

StreamTypeOK ==
    /\ TypeOK
    /\ req \in [Ops -> Uploads \cup Downloads \cup {NoReq}]
    /\ pc \in [Ops -> {"new", "run", "check", "failed", "serve", "close", "done"}]
    /\ result \in [Ops -> Answers \cup {None}]
    /\ told \in SUBSET Ops
    /\ moved \in [Ops -> 0 .. MaxBytes]
    /\ run \in [Ops -> Runs \cup {None}]
    /\ helper \in [Ops -> Helpers \cup {None}]
    /\ marker \in [Ops -> [code : HelperErrors \cup {"OK"}, content : AnyContent] \cup {None}]
    /\ file \in [LeaseIDs -> Inodes \cup {Absent, Directory}]
    /\ data \in [Inodes -> AnyContent]
    /\ source \in [Ops -> Inodes \cup {None}]
    /\ temps \in SUBSET Ops
    /\ published \in SUBSET Ops
    /\ edits \in 0 .. MaxEdits

StreamInit ==
    /\ Init
    /\ req = [o \in Ops |-> NoReq]
    /\ pc = [o \in Ops |-> "new"]
    /\ result = [o \in Ops |-> None]
    /\ told = {}
    /\ moved = [o \in Ops |-> 0]
    /\ run = [o \in Ops |-> None]
    /\ helper = [o \in Ops |-> None]
    /\ marker = [o \in Ops |-> None]
    /\ file \in [LeaseIDs -> {Initial, Absent}]
    /\ data = [i \in Inodes |-> IF i = Initial THEN Original ELSE <<>>]
    /\ source = [o \in Ops |-> None]
    /\ temps = {} /\ published = {} /\ edits = 0

\* op.ctx.Err() # nil: finish cancels the context as well.
CtxErr(o) == o \notin AllActive \/ CtxDone(o)

Upload(o) == req[o].kind = "upload"
Download(o) == req[o].kind = "download"
Lease(o) == req[o].lid

\* remoteTransferError
remoteTransferError(code) == IF code = "TRANSFER_FAILED" THEN "FILE_TRANSFER_FAILED" ELSE code

----------------------------------------------------------------------------
(* A request arrives.                                                      *)

Answer(o, r) == result' = [result EXCEPT ![o] = r]
Goto(o, label) == pc' = [pc EXCEPT ![o] = label]

\* begin admits the transfer and runner.Run is called ...
Admit(o, r, e) ==
    /\ begin(o, r.lid, e)
    /\ run' = [run EXCEPT ![o] = "running"]
    /\ Goto(o, "run")
    /\ UNCHANGED result

\* ... or does not.
Refuse(o, r) ==
    /\ beginRefused(r.lid)
    /\ Answer(o, IF closed \/ r.lid \in blocked THEN "ABORTED" ELSE "TRANSFER_LIMIT_REACHED")
    /\ Goto(o, "done")
    /\ UNCHANGED run

\* writeFileContent and WriteFileStream up to runner.Run; a request without the
\* headers it needs is refused like one over the limit.
writeFileContent(o) ==
    /\ pc[o] = "new"
    /\ \E r \in Uploads, e \in Expiries :
        /\ req' = [req EXCEPT ![o] = r]
        /\ \/ /\ Len(r.declared) > MaxBytes
              /\ Answer(o, "TRANSFER_TOO_LARGE")
              /\ Goto(o, "done")
              /\ UNCHANGED <<tvars, run>>
           \/ Len(r.declared) <= MaxBytes /\ (Admit(o, r, e) \/ Refuse(o, r))
    /\ UNCHANGED <<now, told, moved, sandbox>>

\* readFileContent and OpenFile up to readTransferMarker.
readFileContent(o) ==
    /\ pc[o] = "new"
    /\ \E r \in Downloads, e \in Expiries :
        /\ req' = [req EXCEPT ![o] = r]
        /\ Admit(o, r, e) \/ Refuse(o, r)
    /\ UNCHANGED <<now, told, moved, sandbox>>

\* The client goes away, which cancels the request's context.
Disconnect(o) ==
    /\ cancel(o)
    /\ told' = told \cup {o}
    /\ UNCHANGED <<now, req, pc, result, moved, run, sandbox>>

----------------------------------------------------------------------------
(* The helper.                                                             *)

\* The Pod exec reaches the container.
StartHelper(o) ==
    /\ run[o] = "running"
    /\ helper[o] = None
    /\ helper' = [helper EXCEPT ![o] = "open"]
    /\ UNCHANGED <<now, tvars, handlers, marker, file, data, source, temps, published, edits>>

\* run returns a protocolError: the deferred function has removed the temporary
\* file and main prints ASP1 ERR.
HelperFails(o, code) ==
    /\ helper' = [helper EXCEPT ![o] = "exit1"]
    /\ marker' = [marker EXCEPT ![o] = Marker(code, <<>>)]
    /\ temps' = temps \ {o}
    /\ UNCHANGED <<file, data, source, published, edits>>

createTemporary(o) ==
    /\ temps' = temps \cup {o}
    /\ helper' = [helper EXCEPT ![o] = "copy"]
    /\ UNCHANGED <<marker, file, data, published, edits>>

\* openParent walks down to the directory, which is taken to exist; what the
\* path's last part names there.
openParent(o) == file[Lease(o)]

\* SHA-256 is taken to be injective.
equalDigest(left, right) == left = right

\* The checks of what the path names, and createTemporary.
UploadOpens(o) ==
    /\ helper[o] = "open" /\ Upload(o)
    /\ \/ openParent(o) = Directory /\ HelperFails(o, "INVALID_PATH")
       \/ openParent(o) # Directory /\ HelperFails(o, "TRANSFER_FAILED")
       \/ openParent(o) # Directory /\ createTemporary(o) /\ UNCHANGED source
    /\ UNCHANGED <<now, tvars, handlers>>

DownloadOpens(o) ==
    /\ helper[o] = "open" /\ Download(o)
    /\ LET f == openParent(o) IN
        \/ f = Absent /\ HelperFails(o, "FILE_NOT_FOUND")
        \/ f = Directory /\ HelperFails(o, "INVALID_PATH")
        \/ f \in Inodes /\ Len(data[f]) > MaxBytes /\ HelperFails(o, "TRANSFER_TOO_LARGE")
        \/ f \in Inodes /\ HelperFails(o, "TRANSFER_FAILED")
        \/ /\ f \in Inodes /\ Len(data[f]) <= MaxBytes
           /\ source' = [source EXCEPT ![o] = f]
           /\ createTemporary(o)
    /\ UNCHANGED <<now, tvars, handlers>>

\* The next block of the request body goes through the exec's stdin to io.CopyN
\* in the helper ...
UploadCopies(o) ==
    /\ run[o] = "running"
    /\ helper[o] = "copy" /\ Upload(o)
    /\ moved[o] < Len(req[o].body)
    /\ moved' = [moved EXCEPT ![o] = @ + 1]
    /\ data' = [data EXCEPT ![o] = Append(@, req[o].body[moved[o] + 1])]
    /\ UNCHANGED <<now, tvars, req, pc, result, told, run,
                   helper, marker, file, source, temps, published, edits>>

\* ... until stdin ends: the body did, or the exec.
StdinEnds(o) == run[o] # "running" \/ moved[o] = Len(req[o].body)

UploadShort(o) ==
    /\ helper[o] = "copy" /\ Upload(o)
    /\ StdinEnds(o)
    /\ Len(data[o]) < Len(req[o].declared)
    /\ HelperFails(o, "CONTENT_LENGTH_MISMATCH")
    /\ UNCHANGED <<now, tvars, handlers>>

\* Writing the temporary file fails (the volume is full), or reading stdin does, at
\* a byte of the content or at the one looked for after the last: whatever failed,
\* the helper says the same.
UploadIOFails(o) ==
    /\ helper[o] = "copy" /\ Upload(o)
    /\ Len(data[o]) <= Len(req[o].declared)
    /\ HelperFails(o, "CONTENT_LENGTH_MISMATCH")
    /\ UNCHANGED <<now, tvars, handlers>>

\* Renameat: the temporary file becomes the one the path names.
Rename(o) ==
    /\ file' = [file EXCEPT ![Lease(o)] = o]
    /\ temps' = temps \ {o}
    /\ published' = published \cup {o}
    /\ helper' = [helper EXCEPT ![o] = "report"]
    /\ UNCHANGED <<marker, data, source, edits>>

\* Fault: the end of stdin commits whatever has arrived.
CommitShort(o) ==
    /\ helper[o] = "copy" /\ Upload(o)
    /\ StdinEnds(o)
    /\ Rename(o)
    /\ UNCHANGED <<now, tvars, handlers>>

\* All bytes are there: the digest is compared, the file is synced and renamed,
\* or one of these fails.
UploadCommits(o) ==
    /\ helper[o] = "copy" /\ Upload(o)
    /\ StdinEnds(o)
    /\ Len(data[o]) = Len(req[o].declared)
    /\ LET matches == equalDigest(data[o], req[o].declared) IN
        \/ ~matches /\ HelperFails(o, "CONTENT_DIGEST_MISMATCH")
        \/ matches /\ HelperFails(o, "TRANSFER_FAILED")
        \/ matches /\ file[Lease(o)] # Directory /\ Rename(o)
    /\ UNCHANGED <<now, tvars, handlers>>

\* ASP1 OK is written, or could not be (a postflightError prints nothing).
UploadReports(o) ==
    /\ helper[o] = "report"
    /\ \/ /\ marker' = [marker EXCEPT ![o] = Marker("OK", <<>>)]
          /\ helper' = [helper EXCEPT ![o] = "exit0"]
       \/ /\ run[o] # "running"
          /\ helper' = [helper EXCEPT ![o] = "exit1"]
          /\ UNCHANGED marker
    /\ UNCHANGED <<now, tvars, handlers, file, data, source, temps, published, edits>>

\* A download is first copied, block by block, from the inode it opened ...
DownloadCopies(o) ==
    /\ helper[o] = "copy" /\ Download(o)
    /\ Len(data[o]) < Len(data[source[o]]) /\ Len(data[o]) <= MaxBytes
    /\ data' = [data EXCEPT ![o] = Append(@, data[source[o]][Len(@) + 1])]
    /\ UNCHANGED <<now, tvars, handlers, helper, marker, file, source, temps, published, edits>>

\* ... at the end of which the copy loses its name and its size and digest are
\* announced.
DownloadReports(o) ==
    /\ helper[o] = "copy" /\ Download(o)
    /\ \/ Len(data[o]) > MaxBytes /\ HelperFails(o, "TRANSFER_TOO_LARGE")
       \/ HelperFails(o, "TRANSFER_FAILED")
       \/ /\ Len(data[o]) >= Len(data[source[o]]) /\ Len(data[o]) <= MaxBytes
          /\ temps' = temps \ {o}
          /\ marker' = [marker EXCEPT ![o] = Marker("OK", data[o])]
          /\ helper' = [helper EXCEPT ![o] = "send"]
          /\ UNCHANGED <<file, data, source, published, edits>>
    /\ UNCHANGED <<now, tvars, handlers>>

\* io.CopyN of the copy to stdout passes a block through the exec, the pipe and
\* io.Copy to the client, if the client takes it ...
DownloadSends(o) ==
    /\ helper[o] = "send" /\ pc[o] = "serve" /\ run[o] = "running"
    /\ moved[o] < Len(data[o])
    /\ moved' = [moved EXCEPT ![o] = @ + 1]
    /\ UNCHANGED <<now, tvars, req, pc, result, told, run, sandbox>>

\* ... until all is written or writing fails.
DownloadExits(o) ==
    /\ helper[o] = "send"
    /\ \/ /\ moved[o] = Len(data[o])
          /\ helper' = [helper EXCEPT ![o] = "exit0"]
       \/ /\ run[o] # "running"
          /\ helper' = [helper EXCEPT ![o] = "exit1"]
    /\ UNCHANGED <<now, tvars, handlers, marker, file, data, source, temps, published, edits>>

\* The kernel or the kubelet kills the helper.
KillHelper(o) ==
    /\ helper[o] \in {"open", "copy", "report", "send"}
    /\ helper' = [helper EXCEPT ![o] = "killed"]
    /\ UNCHANGED <<now, tvars, handlers, marker, file, data, source, temps, published, edits>>

\* Another process of the sandbox writes the file in place, removes it or puts a
\* directory in its stead.
Edit(id) ==
    /\ edits < MaxEdits
    /\ edits' = edits + 1
    /\ \/ /\ file[id] \in Inodes
          /\ \E c \in Contents \cup {TooLong} : data' = [data EXCEPT ![file[id]] = c]
          /\ UNCHANGED file
       \/ /\ \E f \in {Absent, Directory} : file' = [file EXCEPT ![id] = f]
          /\ UNCHANGED data
    /\ UNCHANGED <<now, tvars, handlers, helper, marker, source, temps, published>>

----------------------------------------------------------------------------
(* The handler of an upload.                                               *)

Exited(o) == helper[o] \in {"exit0", "exit1", "killed"}

\* Fault: a Run that returned nil is taken for success.
ResultOfRun(o, ok, m) ==
    IF CtxDone(o) /\ ~ok THEN "ABORTED"
    ELSE IF m # None /\ m.code # "OK" THEN remoteTransferError(m.code)
    ELSE "OK"

\* Fault: the length is checked against what was read of the body, whatever the
\* helper said.
ResultOfBody(o, ok, m) ==
    IF CtxDone(o) THEN "ABORTED"
    ELSE IF moved[o] # Len(req[o].declared) \/ ~ok THEN "CONTENT_LENGTH_MISMATCH"
    ELSE "OK"

\* uploadInput keeps an error of the body that is not its end: over HTTP/1.1, which
\* is what the server speaks, a body that stops short of its Content-Length has one
\* and a whole one does not.
InputErr(o) == moved[o] = Len(req[o].body) /\ Len(req[o].body) < Len(req[o].declared)

\* What WriteFileStream and then writeFileContent make of the end of Run: ok
\* when Run returned nil, m when that line was on stdout.
UploadResult(o, ok, m) ==
    IF CtxDone(o) THEN "ABORTED"
    ELSE IF InputErr(o) /\ moved[o] >= Len(req[o].declared) THEN "CONTENT_LENGTH_MISMATCH"
    ELSE IF m # None /\ m.code # "OK" THEN remoteTransferError(m.code)
    ELSE IF m = None \/ ~ok THEN "FILE_TRANSFER_FAILED"
    ELSE IF moved[o] # Len(req[o].declared) THEN "CONTENT_LENGTH_MISMATCH"
    ELSE IF SubSeq(req[o].body, 1, moved[o]) # req[o].declared THEN "CONTENT_DIGEST_MISMATCH"
    ELSE "OK"

\* Run returns: the helper has ended, the context is done or the connection
\* broke; the handler answers and the deferred finish unregisters the transfer.
UploadReturns(o) ==
    /\ pc[o] = "run" /\ Upload(o)
    /\ \/ /\ Exited(o)
          /\ Answer(o, UploadResult(o, helper[o] = "exit0", marker[o]))
          /\ run' = [run EXCEPT ![o] = IF helper[o] = "exit0" THEN "ok" ELSE "error"]
       \/ /\ \E m \in {None, marker[o]} : Answer(o, UploadResult(o, FALSE, m))
          /\ run' = [run EXCEPT ![o] = "error"]
    /\ finish(o, Lease(o))
    /\ Goto(o, "done")
    /\ told' = told \ {o}
    /\ UNCHANGED <<now, req, moved, sandbox>>

----------------------------------------------------------------------------
(* The handler of a download and the goroutine that runs its exec.         *)

\* The exec's stdout goes through a pipe without a buffer: the line has been read
\* (the bytes are, see DownloadSends), or the reader is closed.
Drained(o) == marker[o] # None => pc[o] # "run"

\* runner.Run returns and the pipe is closed with its outcome ...
RunReturns(o) ==
    /\ run[o] = "running" /\ Download(o)
    /\ \/ /\ Exited(o) /\ Drained(o)
          /\ run' = [run EXCEPT ![o] =
                        IF helper[o] = "exit0" /\ ~CtxDone(o) THEN "ok" ELSE "error"]
       \/ run' = [run EXCEPT ![o] = "error"]   \* the context is done, or the connection broke
    /\ UNCHANGED <<now, tvars, req, pc, result, told, moved, sandbox>>

\* ... and then the operation is finished.
Finish(o) ==
    /\ Download(o) /\ run[o] \in {"ok", "error"}
    /\ finish(o, Lease(o))
    /\ UNCHANGED <<now, handlers, sandbox>>

\* The answer is settled; op.cancel and the reader's Close, then <-op.done.
CloseReader(o, r) ==
    /\ Answer(o, r)
    /\ Goto(o, "close")
    /\ \/ cancel(o)
       \/ o \notin AllActive /\ UNCHANGED tvars

\* readTransferMarker has the line, or the end of the pipe.
ReadMarker(o) ==
    /\ pc[o] = "run" /\ Download(o)
    /\ \/ /\ run[o] = "running" /\ marker[o] # None
          /\ \/ /\ marker[o].code # "OK"
                /\ CloseReader(o, remoteTransferError(marker[o].code))
             \/ /\ marker[o].code = "OK"
                /\ Goto(o, "check")
                /\ UNCHANGED <<tvars, result>>
       \/ /\ run[o] # "running"
          /\ Goto(o, "failed")
          /\ UNCHANGED <<tvars, result>>
    /\ UNCHANGED <<now, req, told, moved, run, sandbox>>

\* OpenFile looks at the context, then at the error: mapTransferRunError made one
\* of the end of Run when the pipe was closed.
MarkerMissing(o) ==
    /\ pc[o] = "failed"
    /\ CloseReader(o, IF CtxErr(o) THEN "ABORTED" ELSE "FILE_TRANSFER_FAILED")
    /\ UNCHANGED <<now, req, told, moved, run, sandbox>>

\* OpenFile looks at the context, then at the size announced, then readFileContent
\* sends the header.
CheckMarker(o) ==
    /\ pc[o] = "check"
    /\ \/ CtxErr(o) /\ CloseReader(o, "ABORTED")
       \/ /\ ~CtxErr(o) /\ Len(marker[o].content) > MaxBytes
          /\ CloseReader(o, "TRANSFER_TOO_LARGE")
       \/ /\ ~CtxErr(o) /\ Len(marker[o].content) <= MaxBytes
          /\ Goto(o, "serve") /\ UNCHANGED <<tvars, result>>
    /\ UNCHANGED <<now, req, told, moved, run, sandbox>>

\* Fault: the outcome of io.Copy is not looked at.
ServeEndsUnchecked(o) ==
    /\ pc[o] = "serve"
    /\ CloseReader(o, "OK")
    /\ UNCHANGED <<now, req, told, moved, run, sandbox>>

\* io.Copy ends with an error of the pipe or of the client's connection, or with
\* the end of the pipe.  Anything but the announced content aborts the response.
ServeEnds(o) ==
    /\ pc[o] = "serve"
    /\ \/ CloseReader(o, "BROKEN")
       \/ /\ run[o] = "ok"
          /\ CloseReader(o, IF SubSeq(data[o], 1, moved[o]) = marker[o].content
                            THEN "OK" ELSE "BROKEN")
    /\ UNCHANGED <<now, req, told, moved, run, sandbox>>

\* The handler returns once finish has closed op.done.
Closed(o) ==
    /\ pc[o] = "close"
    /\ o \notin AllActive
    /\ Goto(o, "done")
    /\ told' = told \ {o}
    /\ UNCHANGED <<now, tvars, req, result, moved, run, sandbox>>

----------------------------------------------------------------------------
(* The rest of the control plane, and its end.                             *)

\* Release, Delete, expiry or the sweep stops the transfers of a lease.
StopLease(c, id) ==
    /\ stopLease(c, id)
    /\ told' = told \cup active[id]
    /\ UNCHANGED <<now, req, pc, result, moved, run, sandbox>>

StopAborted(c) == waitAborted(c) /\ UNCHANGED <<now, handlers, sandbox>>

\* The control plane dies with its handlers and execs; the helpers do not.
Crash ==
    /\ restart
    /\ pc' = [o \in Ops |-> IF pc[o] = "new" THEN "new" ELSE "done"]
    /\ result' = [o \in Ops |->
                    IF pc[o] \in {"new", "close", "done"} THEN result[o] ELSE "BROKEN"]
    /\ run' = [o \in Ops |-> IF run[o] = "running" THEN "error" ELSE run[o]]
    /\ told' = {}
    /\ UNCHANGED <<now, req, moved, sandbox>>

HelperStep(o) ==
    \/ UploadOpens(o) \/ UploadCopies(o) \/ UploadShort(o) \/ UploadIOFails(o)
    \/ UploadCommits(o) \/ UploadReports(o)
    \/ DownloadOpens(o) \/ DownloadCopies(o) \/ DownloadReports(o) \/ DownloadSends(o)
    \/ DownloadExits(o)

HandlerStep(o) ==
    \/ UploadReturns(o)
    \/ RunReturns(o) \/ Finish(o) \/ ReadMarker(o) \/ MarkerMissing(o) \/ CheckMarker(o)
    \/ ServeEnds(o) \/ Closed(o)

StreamNext ==
    \/ Crash
    \/ \E c \in Callers : StopAborted(c) \/ \E id \in LeaseIDs : StopLease(c, id)
    \/ \E o \in Ops :
        \/ writeFileContent(o) \/ readFileContent(o) \/ Disconnect(o)
        \/ StartHelper(o) \/ HelperStep(o) \/ KillHelper(o) \/ HandlerStep(o)
    \/ \E id \in LeaseIDs : Edit(id)

StreamSpec == StreamInit /\ [][StreamNext]_svars

----------------------------------------------------------------------------
(* Safety.                                                                 *)

\* An upload answered with 204 was stored whole: the helper has renamed a file
\* with exactly the declared content to the path, whatever else happened to the
\* exec, the body or the path meanwhile.
AcknowledgedStored ==
    \A o \in Ops : Upload(o) /\ result[o] = "OK" => o \in published

\* An upload answered with one of the validation errors has left nothing behind:
\* it has not replaced the file and never will, although its helper may outlive
\* the answer, and no temporary file has stayed.
RejectedLeavesNothing ==
    \A o \in Ops : Upload(o) /\ result[o] \in ValidationErrors =>
        o \notin published /\ o \notin temps

\* The destination is replaced atomically: the path never names a file that an
\* upload is still writing, wrote in part, or that failed its checks.
ReplacedWhole ==
    \A id \in LeaseIDs : file[id] \in Ops =>
        /\ file[id] \notin temps
        /\ edits = 0 => data[file[id]] = req[file[id]].declared

\* A download that ends normally has given the client all the bytes announced by
\* its length and digest, and unless another process wrote the file in place
\* they are one version of it, not a mixture with an upload that replaced it.
DownloadsIntact ==
    \A o \in Ops : Download(o) /\ result[o] = "OK" =>
        /\ SubSeq(data[o], 1, moved[o]) = marker[o].content
        /\ edits = 0 => marker[o].content = data[source[o]]

----------------------------------------------------------------------------
(* What the documentation says and the code does not keep.                 *)

\* docs/api-v1.md: 408 ABORTED is the answer to a transfer that was cancelled,
\* timed out or stopped by the lifecycle of its lease or of the backend.
AbortedForCause ==
    [][\A o \in Ops : result'[o] = "ABORTED" /\ result[o] # "ABORTED" =>
          closed \/ req'[o].lid \in blocked \/ o \in told]_svars
=============================================================================
