-------------------------- MODULE FileTransferProofs --------------------------
(***************************************************************************)
(* Proofs about FileTransfer, for every number of transfers and leases,    *)
(* every content and every change other processes make: an acknowledged    *)
(* upload is stored, a rejected one leaves nothing behind, the path never  *)
(* names part of a file, and a download that ends normally is whole.       *)
(***************************************************************************)
EXTENDS FileTransfer, TransferManagerProofs, SequenceTheorems, TLAPS

----------------------------------------------------------------------------
(* The inductive invariant: what the helper has done, as far as its place  *)
(* and its marker tell, whatever became of the exec and the handler.       *)

PCs == {"new", "run", "check", "failed", "serve", "close", "done"}

FileTypes ==
    /\ req \in [Ops -> Uploads \cup Downloads \cup {NoReq}]
    /\ pc \in [Ops -> PCs]
    /\ result \in [Ops -> Answers \cup {None}]
    /\ moved \in [Ops -> Nat]
    /\ run \in [Ops -> Runs \cup {None}]
    /\ helper \in [Ops -> Helpers \cup {None}]
    /\ marker \in [Ops -> Markers \cup {None}]
    /\ file \in [LeaseIDs -> Inodes \cup {Absent, Directory}]
    /\ data \in [Inodes -> Seq(Blocks)]
    /\ source \in [Ops -> Inodes \cup {None}]
    /\ temps \subseteq Ops /\ published \subseteq Ops
    /\ edits \in Nat

Prefix(s, t) == Len(s) <= Len(t) /\ \A i \in 1 .. Len(s) : s[i] = t[i]

Said(o, code) == marker[o] # None /\ marker[o].code = code
SaidError(o) == marker[o] # None /\ marker[o].code # "OK"

\* A transfer that was not admitted has no helper, and a helper that has not come to
\* its last step has neither published anything nor said a word.
Unstarted(o) ==
    /\ pc[o] = "new" => run[o] = None /\ result[o] = None
    /\ run[o] = None => helper[o] = None /\ result[o] # "OK" /\ pc[o] \in {"new", "done"}
    /\ run[o] # None => req[o] \in Uploads \cup Downloads
    /\ helper[o] \in {None, "open"} => o \notin temps /\ data[o] = <<>>
    /\ helper[o] = None => moved[o] = 0
    /\ helper[o] \in {None, "open", "copy"} => marker[o] = None /\ o \notin published

Uploading(o) ==
    run[o] # None /\ Upload(o) =>
        /\ pc[o] \in {"run", "done"} /\ helper[o] # "send"
        /\ helper[o] \in {None, "open", "copy"} =>
            Len(data[o]) = moved[o] /\ Prefix(data[o], req[o].body)
        /\ helper[o] = "report" => o \in published /\ marker[o] = None
        /\ Said(o, "OK") => o \in published
        /\ SaidError(o) => o \notin published /\ o \notin temps /\ helper[o] = "exit1"
        /\ o \in published =>
            /\ o \notin temps
            /\ moved[o] = Len(req[o].declared)
            /\ SubSeq(req[o].body, 1, moved[o]) = req[o].declared
            /\ edits = 0 => data[o] = req[o].declared
        /\ result[o] = "OK" => o \in published
        /\ result[o] \in ValidationErrors => SaidError(o)

Downloading(o) ==
    run[o] # None /\ Download(o) =>
        /\ o \notin published /\ helper[o] # "report"
        /\ pc[o] \in {"check", "serve"} => Said(o, "OK")
        /\ helper[o] = "copy" \/ Said(o, "OK") => source[o] \in {Initial} \cup published
        /\ helper[o] = "copy" /\ edits = 0 => Prefix(data[o], data[source[o]])
        /\ Said(o, "OK") /\ edits = 0 => marker[o].content = data[source[o]]
        /\ result[o] = "OK" =>
            /\ pc[o] \in {"close", "done"} /\ Said(o, "OK")
            /\ SubSeq(data[o], 1, moved[o]) = marker[o].content

\* What the paths name.
Paths == \A id \in LeaseIDs : file[id] \in Ops => file[id] \in published

OpInv(o) == Unstarted(o) /\ Uploading(o) /\ Downloading(o)

FileInv == FileTypes /\ Paths /\ \A o \in Ops : OpInv(o)
----------------------------------------------------------------------------
(* Frames.                                                                 *)

HandlersOf(p) ==
    /\ req'[p] = req[p] /\ pc'[p] = pc[p] /\ result'[p] = result[p]
    /\ moved'[p] = moved[p] /\ run'[p] = run[p]

HelperOf(p) ==
    /\ helper'[p] = helper[p] /\ marker'[p] = marker[p] /\ source'[p] = source[p]
    /\ data'[p] = data[p]
    /\ p \in temps' <=> p \in temps
    /\ p \in published' <=> p \in published

\* What others see of a step of o: nothing, but that a path may name what o wrote.
Alone(o) ==
    /\ edits' = edits
    /\ \A p \in Ops \ {o} : HandlersOf(p) /\ HelperOf(p)
    /\ published \subseteq published'
    /\ \A i \in {Initial} \cup published : data'[i] = data[i]
    /\ \A id \in LeaseIDs : file'[id] = file[id] \/ (file'[id] = o /\ o \in published')

LEMMA Framed ==
    ASSUME FileInv, NEW o \in Ops, FileTypes', Alone(o), OpInv(o)'
    PROVE FileInv'
<1>1. ASSUME NEW p \in Ops, p # o PROVE OpInv(p)'
  <2>1. HandlersOf(p) /\ HelperOf(p) /\ OpInv(p)
    BY <1>1 DEF FileInv, Alone
  <2>2. Unstarted(p)'
    BY <2>1 DEF OpInv, Unstarted, HandlersOf, HelperOf
  <2>3. Uploading(p)'
    BY <2>1 DEF OpInv, Uploading, HandlersOf, HelperOf, Alone, Upload, Said, SaidError
  <2>4. Downloading(p)'
    BY <2>1 DEF OpInv, Downloading, HandlersOf, HelperOf, Alone, Download, Said
  <2> QED
    BY <2>2, <2>3, <2>4 DEF OpInv
<1>2. Paths'
  BY DEF FileInv, Paths, Alone
<1> QED
  BY <1>1, <1>2 DEF FileInv

HandlerTypes ==
    /\ req \in [Ops -> Uploads \cup Downloads \cup {NoReq}]
    /\ pc \in [Ops -> PCs]
    /\ result \in [Ops -> Answers \cup {None}]
    /\ moved \in [Ops -> Nat]
    /\ run \in [Ops -> Runs \cup {None}]

SandboxTypes ==
    /\ helper \in [Ops -> Helpers \cup {None}]
    /\ marker \in [Ops -> Markers \cup {None}]
    /\ file \in [LeaseIDs -> Inodes \cup {Absent, Directory}]
    /\ data \in [Inodes -> Seq(Blocks)]
    /\ source \in [Ops -> Inodes \cup {None}]
    /\ temps \subseteq Ops /\ published \subseteq Ops
    /\ edits \in Nat

LEMMA TypesAre == FileTypes <=> HandlerTypes /\ SandboxTypes
BY DEF FileTypes, HandlerTypes, SandboxTypes

LEMMA TypesNext == FileTypes' <=> HandlerTypes' /\ SandboxTypes'
BY DEF FileTypes, HandlerTypes, SandboxTypes

\* A step of o's handler.
LEMMA HandlerFramed ==
    ASSUME FileInv, NEW o \in Ops, UNCHANGED sandbox, HandlerTypes',
           \A p \in Ops \ {o} : HandlersOf(p), OpInv(o)'
    PROVE FileInv'
<1>1. FileTypes'
  BY TypesAre, TypesNext DEF FileInv, SandboxTypes, sandbox
<1>2. Alone(o)
  BY DEF Alone, HelperOf, sandbox
<1> QED
  BY <1>1, <1>2, Framed

\* A step of o's helper.
LEMMA HelperFramed ==
    ASSUME FileInv, NEW o \in Ops, UNCHANGED handlers, SandboxTypes', edits' = edits,
           \A p \in Ops \ {o} : HelperOf(p), published \subseteq published',
           \A i \in {Initial} \cup published : data'[i] = data[i],
           \A id \in LeaseIDs : file'[id] = file[id] \/ (file'[id] = o /\ o \in published'),
           OpInv(o)'
    PROVE FileInv'
<1>1. FileTypes'
  BY TypesAre, TypesNext DEF FileInv, HandlerTypes, handlers
<1>2. Alone(o)
  BY DEF Alone, HandlersOf, handlers
<1> QED
  BY <1>1, <1>2, Framed

LEMMA Stutters ==
    ASSUME FileInv, UNCHANGED <<req, pc, result, moved, run, sandbox>>
    PROVE FileInv'
<1>1. FileTypes' /\ Paths'
  BY DEF FileInv, FileTypes, Paths, sandbox
<1>2. ASSUME NEW o \in Ops PROVE OpInv(o)'
  <2>1. OpInv(o)
    BY <1>2 DEF FileInv
  <2>2. Unstarted(o)'
    BY <2>1 DEF OpInv, Unstarted, sandbox
  <2>3. Uploading(o)'
    BY <2>1 DEF OpInv, Uploading, Upload, Said, SaidError, sandbox
  <2>4. Downloading(o)'
    BY <2>1 DEF OpInv, Downloading, Download, Said, sandbox
  <2> QED
    BY <2>2, <2>3, <2>4 DEF OpInv
<1> QED
  BY <1>1, <1>2 DEF FileInv
----------------------------------------------------------------------------
(* The handlers.                                                           *)

LEMMA RequestTypes ==
    /\ \A r \in Uploads : /\ r.kind = "upload" /\ r.lid \in LeaseIDs /\ r.body \in Seq(Blocks)
    /\ \A r \in Downloads : r.kind = "download" /\ r.lid \in LeaseIDs
<1>1. Bodies \subseteq Seq(Blocks)
  BY FileAssumption
<1> QED
  BY <1>1 DEF Uploads, Downloads

\* A request is refused: it has no helper.
LEMMA RefusedKeeps ==
    ASSUME FileInv, NEW o \in Ops, pc[o] = "new", UNCHANGED <<run, moved, sandbox>>,
           NEW r \in Uploads \cup Downloads, req' = [req EXCEPT ![o] = r],
           NEW answer \in Answers \ {"OK"}, Answer(o, answer), Goto(o, "done")
    PROVE FileInv'
<1>1. OpInv(o) /\ HandlerTypes
  BY TypesAre DEF FileInv
<1>2. /\ pc'[o] = "done" /\ result'[o] = answer /\ run'[o] = None
      /\ HandlerTypes' /\ \A p \in Ops \ {o} : HandlersOf(p)
  BY <1>1 DEF HandlerTypes, Answer, Goto, PCs, HandlersOf, OpInv, Unstarted
<1>3. OpInv(o)'
  BY <1>1, <1>2 DEF OpInv, Unstarted, Uploading, Downloading, sandbox
<1> QED
  BY <1>2, <1>3, HandlerFramed

LEMMA AdmittedKeeps ==
    ASSUME FileInv, NEW o \in Ops, pc[o] = "new", UNCHANGED <<moved, result, sandbox>>,
           NEW r \in Uploads \cup Downloads, req' = [req EXCEPT ![o] = r],
           run' = [run EXCEPT ![o] = "running"], Goto(o, "run")
    PROVE FileInv'
<1>1. OpInv(o) /\ HandlerTypes
  BY TypesAre DEF FileInv
<1>2. /\ pc'[o] = "run" /\ req'[o] = r /\ run'[o] = "running"
      /\ HandlerTypes' /\ \A p \in Ops \ {o} : HandlersOf(p)
  BY <1>1 DEF HandlerTypes, Runs, Goto, PCs, HandlersOf
<1>3. /\ run[o] = None /\ helper[o] = None /\ result[o] = None /\ marker[o] = None
      /\ moved[o] = 0 /\ data[o] = <<>> /\ o \notin temps /\ o \notin published
  BY <1>1 DEF OpInv, Unstarted
<1>4. None \notin Runs \cup Helpers \cup Answers /\ "OK" \in Answers /\
      ValidationErrors \subseteq Answers
  BY FileAssumption DEF Answers
<1>5. Unstarted(o)'
  BY <1>2, <1>3, <1>4 DEF Unstarted, Runs, Helpers, sandbox
<1>6. Uploading(o)'
  <2>1. Upload(o)' => r.body \in Seq(Blocks)
    BY <1>2, RequestTypes DEF Upload, Downloads
  <2>2. r.body \in Seq(Blocks) => Len(<<>>) = 0 /\ Prefix(<<>>, r.body)
    BY DEF Prefix
  <2> QED
    BY <1>2, <1>3, <1>4, <2>1, <2>2 DEF Uploading, Said, SaidError, Helpers, sandbox
<1>7. Downloading(o)'
  BY <1>2, <1>3, <1>4 DEF Downloading, Said, Helpers, sandbox
<1> QED
  BY <1>2, <1>5, <1>6, <1>7, HandlerFramed DEF OpInv

LEMMA BeginKeeps ==
    ASSUME FileInv, NEW o \in Ops, writeFileContent(o) \/ readFileContent(o)
    PROVE FileInv'
<1>1. PICK r \in Uploads \cup Downloads :
          /\ pc[o] = "new" /\ req' = [req EXCEPT ![o] = r] /\ UNCHANGED <<moved, sandbox>>
          /\ \/ /\ Answer(o, "TRANSFER_TOO_LARGE") \/ Refuse(o, r)
                /\ Goto(o, "done") /\ UNCHANGED run
             \/ \E e \in Expiries : Admit(o, r, e)
  BY DEF writeFileContent, readFileContent, Refuse
<1>2. \A e : Admit(o, r, e) => FileInv'
  BY <1>1, AdmittedKeeps DEF Admit
<1>3. \A answer \in Answers \ {"OK"} :
          Answer(o, answer) /\ Goto(o, "done") /\ UNCHANGED run => FileInv'
  BY <1>1, RefusedKeeps
<1>4. Refuse(o, r) => \E answer \in Answers \ {"OK"} : Answer(o, answer)
  BY DEF Refuse, Answers
<1>5. "TRANSFER_TOO_LARGE" \in Answers \ {"OK"}
  BY DEF Answers, ValidationErrors, HelperErrors
<1> QED
  BY <1>1, <1>2, <1>3, <1>4, <1>5

LEMMA UploadLengths ==
    \A r \in Uploads : Len(r.body) \in Nat /\ Len(r.declared) \in Nat
<1>1. Bodies \subseteq Seq(Blocks) /\ Contents \subseteq Seq(Blocks)
  BY FileAssumption
<1>2. TooLong \in Seq(Blocks)
  <2>1. (CHOOSE b \in Blocks : TRUE) \in Blocks
    BY FileAssumption
  <2>2. MaxBytes + 1 \in Nat
    BY FileAssumption
  <2> QED
    BY <2>1, <2>2 DEF TooLong
<1>3. \A r \in Uploads : r.body \in Seq(Blocks) /\ r.declared \in Seq(Blocks)
  BY <1>1, <1>2 DEF Uploads
<1> QED
  BY <1>3

LEMMA UploadOf ==
    ASSUME FileInv, NEW o \in Ops, run[o] # None, Upload(o)
    PROVE req[o] \in Uploads
<1>1. req[o] \in Uploads \cup Downloads
  BY DEF FileInv, OpInv, Unstarted
<1> QED
  BY <1>1, RequestTypes DEF Upload

\* What an upload is answered when its helper's word is m.
LEMMA UploadAnswers ==
    ASSUME FileInv, NEW o \in Ops, run[o] # None, Upload(o), NEW ok, NEW m \in {None, marker[o]}
    PROVE /\ UploadResult(o, ok, m) \in Answers
          /\ UploadResult(o, ok, m) = "OK" => o \in published
          /\ UploadResult(o, ok, m) \in ValidationErrors => SaidError(o)
<1>0. ~ (InputErr(o) /\ moved[o] >= Len(req[o].declared))
  <2>1. req[o] \in Uploads
    BY UploadOf
  <2>2. Len(req[o].body) \in Nat /\ Len(req[o].declared) \in Nat
    BY <2>1, UploadLengths
  <2> QED
    BY <2>2 DEF InputErr
<1>1. Uploading(o) /\ marker[o] \in Markers \cup {None}
  BY DEF FileInv, OpInv, FileTypes
<1>2. CASE m # None /\ m.code # "OK"
  BY <1>0, <1>1, <1>2 DEF UploadResult, remoteTransferError, Markers, Answers, ValidationErrors,
     HelperErrors,
                    SaidError
<1>3. CASE m = None
  BY <1>0, <1>3 DEF UploadResult, Answers, ValidationErrors, HelperErrors
<1>4. CASE m # None /\ m.code = "OK"
  <2>1. /\ o \in published /\ moved[o] = Len(req[o].declared)
        /\ SubSeq(req[o].body, 1, moved[o]) = req[o].declared
    BY <1>1, <1>4 DEF Uploading, Said
  <2> QED
    BY <1>0, <1>4, <2>1 DEF UploadResult, Answers, ValidationErrors, HelperErrors
<1> QED
  BY <1>2, <1>3, <1>4

LEMMA UploadReturnsKeeps ==
    ASSUME FileInv, NEW o \in Ops, UploadReturns(o)
    PROVE FileInv'
<1>1. OpInv(o) /\ HandlerTypes
  BY TypesAre DEF FileInv
<1>2. PICK ok \in BOOLEAN, m \in {None, marker[o]} :
          result' = [result EXCEPT ![o] = UploadResult(o, ok, m)]
  BY DEF UploadReturns, Answer
<1>3. PICK outcome \in {"ok", "error"} : run' = [run EXCEPT ![o] = outcome]
  BY DEF UploadReturns
<1>4. /\ pc[o] = "run" /\ Upload(o) /\ pc' = [pc EXCEPT ![o] = "done"]
      /\ UNCHANGED <<req, moved, sandbox>>
  BY DEF UploadReturns, Goto
<1>5. run[o] # None
  BY <1>1, <1>4 DEF OpInv, Unstarted
<1> DEFINE answer == UploadResult(o, ok, m)
<1>6. /\ answer \in Answers
      /\ answer = "OK" => o \in published
      /\ answer \in ValidationErrors => SaidError(o)
  BY <1>4, <1>5, UploadAnswers
<1> HIDE DEF answer
<1>7. /\ HandlerTypes' /\ \A p \in Ops \ {o} : HandlersOf(p)
      /\ pc'[o] = "done" /\ result'[o] = answer /\ run'[o] = outcome
  BY <1>1, <1>2, <1>3, <1>4, <1>6 DEF HandlerTypes, HandlersOf, PCs, Runs, answer
<1>8. outcome # None
  BY FileAssumption DEF Runs
<1>9. Unstarted(o)'
  BY <1>1, <1>4, <1>5, <1>7, <1>8 DEF OpInv, Unstarted, sandbox
<1>10. Uploading(o)'
  BY <1>1, <1>4, <1>5, <1>6, <1>7, <1>8 DEF OpInv, Uploading, Upload, Said, SaidError, sandbox
<1>11. Downloading(o)'
  BY <1>4 DEF Downloading, Download, Upload
<1> QED
  BY <1>4, <1>7, <1>9, <1>10, <1>11, HandlerFramed DEF OpInv
\* Past "run", a handler that is not done serves a download.
LEMMA ServesDownload ==
    ASSUME FileInv, NEW o \in Ops,
           (pc[o] = "run" /\ Download(o)) \/ pc[o] \in {"check", "failed", "serve", "close"}
    PROVE run[o] # None /\ Download(o) /\ ~Upload(o)
<1>1. OpInv(o)
  BY DEF FileInv
<1>2. run[o] # None
  BY <1>1 DEF OpInv, Unstarted
<1>3. req[o] \in Uploads \cup Downloads
  BY <1>1, <1>2 DEF OpInv, Unstarted
<1>4. Upload(o) => pc[o] \in {"run", "done"}
  BY <1>1, <1>2 DEF OpInv, Uploading
<1> QED
  BY <1>2, <1>3, <1>4, RequestTypes DEF Upload, Download

\* The answer of a download is settled.
LEMMA AnsweredKeeps ==
    ASSUME FileInv, NEW o \in Ops, run[o] # None, Download(o),
        UNCHANGED <<req, moved, run, sandbox>>,
           NEW answer \in Answers, CloseReader(o, answer),
           answer = "OK" => Said(o, "OK") /\ SubSeq(data[o], 1, moved[o]) = marker[o].content
    PROVE FileInv'
<1>1. OpInv(o) /\ HandlerTypes
  BY TypesAre DEF FileInv
<1>2. /\ HandlerTypes' /\ \A p \in Ops \ {o} : HandlersOf(p)
      /\ pc'[o] = "close" /\ result'[o] = answer
  BY <1>1 DEF HandlerTypes, HandlersOf, PCs, CloseReader, Answer, Goto
<1>3. Unstarted(o)'
  BY <1>1, <1>2 DEF OpInv, Unstarted, sandbox
<1>4. Uploading(o)'
  BY DEF Uploading, Download, Upload
<1>5. Downloading(o)'
  BY <1>1, <1>2 DEF OpInv, Downloading, Download, Said, sandbox
<1> QED
  BY <1>2, <1>3, <1>4, <1>5, HandlerFramed DEF OpInv

\* The handler of a download goes on.
LEMMA GoesOnKeeps ==
    ASSUME FileInv, NEW o \in Ops, run[o] # None, Download(o),
           UNCHANGED <<req, result, moved, run, sandbox>>,
           NEW label \in PCs \ {"new"}, Goto(o, label),
           label \in {"check", "serve"} => Said(o, "OK"),
           pc[o] \in {"close", "done"} => label \in {"close", "done"}
    PROVE FileInv'
<1>1. OpInv(o) /\ HandlerTypes
  BY TypesAre DEF FileInv
<1>2. /\ HandlerTypes' /\ \A p \in Ops \ {o} : HandlersOf(p)
      /\ pc'[o] = label
  BY <1>1 DEF HandlerTypes, HandlersOf, PCs, Goto
<1>3. Unstarted(o)'
  BY <1>1, <1>2 DEF OpInv, Unstarted, sandbox
<1>4. Uploading(o)'
  BY DEF Uploading, Download, Upload
<1>5. Downloading(o)'
  BY <1>1, <1>2 DEF OpInv, Downloading, Download, Said, sandbox
<1> QED
  BY <1>2, <1>3, <1>4, <1>5, HandlerFramed DEF OpInv

LEMMA RunReturnsKeeps ==
    ASSUME FileInv, NEW o \in Ops, RunReturns(o)
    PROVE FileInv'
<1>1. OpInv(o) /\ HandlerTypes
  BY TypesAre DEF FileInv
<1>2. PICK outcome \in {"ok", "error"} : run' = [run EXCEPT ![o] = outcome]
  BY DEF RunReturns
<1>3. run[o] # None /\ Download(o) /\ UNCHANGED <<req, pc, result, moved, sandbox>>
  BY FileAssumption DEF RunReturns, Runs
<1>4. /\ HandlerTypes' /\ \A p \in Ops \ {o} : HandlersOf(p)
      /\ run'[o] = outcome /\ outcome # None
  BY <1>1, <1>2, <1>3, FileAssumption DEF HandlerTypes, HandlersOf, Runs
<1>5. Unstarted(o)'
  BY <1>1, <1>3, <1>4 DEF OpInv, Unstarted, sandbox
<1>6. Uploading(o)'
  BY <1>3 DEF Uploading, Download, Upload
<1>7. Downloading(o)'
  BY <1>1, <1>3, <1>4 DEF OpInv, Downloading, Download, Said, sandbox
<1> QED
  BY <1>3, <1>4, <1>5, <1>6, <1>7, HandlerFramed DEF OpInv

LEMMA DownloadHandlerKeeps ==
    ASSUME FileInv, NEW o \in Ops,
           ReadMarker(o) \/ MarkerMissing(o) \/ CheckMarker(o) \/ ServeEnds(o) \/ Closed(o)
    PROVE FileInv'
<1>1. /\ run[o] # None /\ Download(o)
      /\ UNCHANGED <<req, moved, run, sandbox>>
      /\ Downloading(o) /\ marker[o] \in Markers \cup {None}
  BY ServesDownload
     DEF FileInv, FileTypes, OpInv, ReadMarker, MarkerMissing, CheckMarker, ServeEnds, Closed
<1>2. \A r \in Answers \ {"OK"} : CloseReader(o, r) => FileInv'
  BY <1>1, AnsweredKeeps
<1>3. "ABORTED" \in Answers \ {"OK"} /\ "FILE_TRANSFER_FAILED" \in Answers \ {"OK"}
      /\ "BROKEN" \in Answers \ {"OK"} /\ "TRANSFER_TOO_LARGE" \in Answers \ {"OK"}
  BY DEF Answers, ValidationErrors, HelperErrors
<1>4. \A label \in PCs \ {"new"} :
          /\ Goto(o, label) /\ UNCHANGED result
          /\ label \in {"check", "serve"} => Said(o, "OK")
          /\ pc[o] \in {"close", "done"} => label \in {"close", "done"}
          => FileInv'
  BY <1>1, GoesOnKeeps
<1>5. {"check", "failed", "serve", "done"} \subseteq PCs \ {"new"}
  BY DEF PCs
<1>6. CASE ReadMarker(o)
  <2>1. CASE marker[o] # None /\ marker[o].code # "OK"
               /\ CloseReader(o, remoteTransferError(marker[o].code))
    <3>1. remoteTransferError(marker[o].code) \in Answers \ {"OK"}
      BY <1>1, <2>1 DEF Markers, remoteTransferError, Answers, ValidationErrors, HelperErrors
    <3> QED
      BY <1>2, <2>1, <3>1
  <2>2. CASE marker[o] # None /\ marker[o].code = "OK" /\ Goto(o, "check") /\ UNCHANGED result
    BY <1>4, <1>5, <1>6, <2>2 DEF ReadMarker, Said
  <2>3. CASE Goto(o, "failed") /\ UNCHANGED result
    BY <1>4, <1>5, <1>6, <2>3 DEF ReadMarker
  <2> QED
    BY <1>6, <2>1, <2>2, <2>3 DEF ReadMarker
<1>7. CASE MarkerMissing(o)
  BY <1>2, <1>3, <1>7 DEF MarkerMissing
<1>8. CASE CheckMarker(o)
  <2>1. pc[o] = "check" /\ Said(o, "OK")
    BY <1>1, <1>8 DEF CheckMarker, Downloading
  <2>2. CASE CloseReader(o, "ABORTED") \/ CloseReader(o, "TRANSFER_TOO_LARGE")
    BY <1>2, <1>3, <2>2
  <2>3. CASE Goto(o, "serve") /\ UNCHANGED result
    BY <1>4, <1>5, <2>1, <2>3
  <2> QED
    BY <1>8, <2>2, <2>3 DEF CheckMarker
<1>9. CASE ServeEnds(o)
  <2>1. Said(o, "OK") /\ "OK" \in Answers
    BY <1>1, <1>9 DEF ServeEnds, Downloading, Answers
  <2>2. CASE CloseReader(o, "BROKEN")
    BY <1>2, <1>3, <2>2
  <2>3. CASE CloseReader(o, "OK") /\ SubSeq(data[o], 1, moved[o]) = marker[o].content
    BY <1>1, <2>1, <2>3, AnsweredKeeps
  <2> QED
    BY <1>9, <2>2, <2>3 DEF ServeEnds
<1>10. CASE Closed(o)
  BY <1>4, <1>5, <1>10 DEF Closed
<1> QED
  BY <1>6, <1>7, <1>8, <1>9, <1>10

LEMMA CrashKeeps ==
    ASSUME FileInv, Crash
    PROVE FileInv'
<1>1. UNCHANGED <<req, moved, sandbox>> /\ HandlerTypes /\ SandboxTypes /\ Paths
  BY TypesAre DEF FileInv, Crash
<1>2. \A o \in Ops :
        /\ pc'[o] = IF pc[o] = "new" THEN "new" ELSE "done"
        /\ result'[o] = IF pc[o] \in {"new", "close", "done"} THEN result[o] ELSE "BROKEN"
        /\ run'[o] = IF run[o] = "running" THEN "error" ELSE run[o]
  BY DEF Crash
<1>3. HandlerTypes'
  <2>1. pc' \in [Ops -> PCs]
    BY <1>1 DEF Crash, HandlerTypes, PCs
  <2>2. result' \in [Ops -> Answers \cup {None}]
    BY <1>1 DEF Crash, HandlerTypes, Answers
  <2>3. run' \in [Ops -> Runs \cup {None}]
    BY <1>1 DEF Crash, HandlerTypes, Runs
  <2> QED
    BY <1>1, <2>1, <2>2, <2>3 DEF HandlerTypes
<1>4. FileTypes' /\ Paths'
  BY <1>1, <1>3, TypesNext DEF SandboxTypes, Paths, sandbox
<1>5. None # "running" /\ None # "error" /\ None # "OK" /\ "BROKEN" \notin ValidationErrors
  BY FileAssumption DEF Runs, Answers, ValidationErrors, HelperErrors
<1>6. ASSUME NEW o \in Ops PROVE OpInv(o)'
  <2>1. OpInv(o) /\ (run'[o] = None <=> run[o] = None)
        /\ (result'[o] = result[o] \/ (result'[o] = "BROKEN" /\ pc[o] # "new"))
        /\ (pc'[o] = pc[o] \/ pc'[o] = "done")
        /\ (pc'[o] = "new" <=> pc[o] = "new")
    BY <1>2, <1>5, <1>6 DEF FileInv
  <2>2. Unstarted(o)'
    BY <1>1, <2>1 DEF OpInv, Unstarted, sandbox
  <2>3. Uploading(o)'
    BY <1>1, <1>5, <2>1 DEF OpInv, Uploading, Upload, Said, SaidError, sandbox
  <2>4. Downloading(o)'
    BY <1>1, <2>1 DEF OpInv, Downloading, Download, Said, sandbox
  <2> QED
    BY <2>2, <2>3, <2>4 DEF OpInv
<1> QED
  BY <1>4, <1>6 DEF FileInv
----------------------------------------------------------------------------
(* The helpers.                                                            *)

\* A step of o's helper that leaves the files as they are.
LEMMA ReportFramed ==
    ASSUME FileInv, NEW o \in Ops, UNCHANGED <<handlers, file, data, published, edits>>,
        SandboxTypes',
           \A p \in Ops \ {o} : HelperOf(p), OpInv(o)'
    PROVE FileInv'
BY HelperFramed

\* A helper starts, exits without a word or is killed.
LEMMA HelperMoves ==
    ASSUME FileInv, NEW o \in Ops,
        UNCHANGED <<handlers, marker, file, data, source, temps, published, edits>>,
           NEW h \in {"open", "exit0", "exit1", "killed"}, helper' = [helper EXCEPT ![o] = h],
           h = "open" => run[o] # None /\ helper[o] = None,
           h # "open" => helper[o] \in {"open", "copy", "report", "send"}
    PROVE FileInv'
<1>1. OpInv(o) /\ SandboxTypes
  BY TypesAre DEF FileInv
<1>2. SandboxTypes' /\ helper'[o] = h /\ \A p \in Ops \ {o} : HelperOf(p)
  BY <1>1 DEF SandboxTypes, Helpers, HelperOf
<1>3. None \notin Helpers /\ h \in Helpers
  BY FileAssumption DEF Helpers
<1>4. Unstarted(o)'
  BY <1>1, <1>2, <1>3 DEF OpInv, Unstarted, handlers, Helpers
<1>5. Uploading(o)'
  <2>1. CASE helper[o] = "exit1"
    BY <1>3, <2>1 DEF Helpers
  <2>2. CASE helper[o] # "exit1"
    BY <1>1, <1>2, <1>3, <2>2 DEF OpInv, Uploading, Upload, Said, SaidError, handlers
  <2> QED
    BY <2>1, <2>2
<1>6. Downloading(o)'
  BY <1>1, <1>2, <1>3 DEF OpInv, Downloading, Download, Said, handlers
<1> QED
  BY <1>2, <1>4, <1>5, <1>6, ReportFramed DEF OpInv

LEMMA FailsKeeps ==
    ASSUME FileInv, NEW o \in Ops, UNCHANGED handlers, helper[o] \in {"open", "copy"},
           NEW code \in HelperErrors, HelperFails(o, code)
    PROVE FileInv'
<1>1. OpInv(o) /\ SandboxTypes
  BY TypesAre DEF FileInv
<1>2. Marker(code, <<>>) \in Markers /\ Marker(code, <<>>).code = code /\ code # "OK"
  BY DEF Marker, Markers, HelperErrors
<1> DEFINE word == Marker(code, <<>>)
<1>3. UNCHANGED <<file, data, source, published, edits>> /\ temps' = temps \ {o}
      /\ helper' = [helper EXCEPT ![o] = "exit1"] /\ marker' = [marker EXCEPT ![o] = word]
  BY DEF HelperFails
<1> HIDE DEF word
<1>4. /\ SandboxTypes' /\ helper'[o] = "exit1" /\ marker'[o] = word
      /\ o \notin temps' /\ \A p \in Ops \ {o} : HelperOf(p)
  BY <1>1, <1>2, <1>3 DEF SandboxTypes, Helpers, HelperOf, word
<1>5. None \notin Helpers
  BY FileAssumption
<1>6. run[o] # None /\ marker[o] = None /\ o \notin published
  BY <1>1, <1>5 DEF OpInv, Unstarted, Helpers
<1>7. Unstarted(o)'
  BY <1>1, <1>3, <1>4, <1>5, <1>6 DEF OpInv, Unstarted, handlers, Helpers
<1>8. Uploading(o)'
  BY <1>1, <1>2, <1>3, <1>4, <1>5, <1>6
     DEF OpInv, Uploading, Upload, Said, SaidError, handlers, Helpers, word
<1>9. Downloading(o)'
  BY <1>1, <1>2, <1>3, <1>4, <1>6 DEF OpInv, Downloading, Download, Said, handlers, word
<1> QED
  BY <1>3, <1>4, <1>7, <1>8, <1>9, ReportFramed DEF OpInv

LEMMA PrefixEmpty == \A s \in Seq(Blocks) : Len(<<>>) = 0 /\ Prefix(<<>>, s)
BY DEF Prefix

\* The temporary file is there, and what a download copies from is open.
LEMMA OpensKeeps ==
    ASSUME FileInv, NEW o \in Ops, UNCHANGED handlers, helper[o] = "open",
           createTemporary(o),
           \/ Upload(o) /\ UNCHANGED source
           \/ /\ Download(o) /\ openParent(o) \in Inodes
              /\ source' = [source EXCEPT ![o] = openParent(o)]
    PROVE FileInv'
<1>1. OpInv(o) /\ SandboxTypes /\ Paths
  BY TypesAre DEF FileInv
<1>2. UNCHANGED <<marker, file, data, published, edits>> /\ temps' = temps \cup {o}
      /\ helper' = [helper EXCEPT ![o] = "copy"]
  BY DEF createTemporary
<1>3. /\ SandboxTypes' /\ helper'[o] = "copy"
      /\ \A p \in Ops \ {o} : HelperOf(p)
  BY <1>1, <1>2 DEF SandboxTypes, Helpers, HelperOf
<1>4. None \notin Helpers
  BY FileAssumption
<1>5. /\ run[o] # None /\ marker[o] = None /\ o \notin published /\ data[o] = <<>>
      /\ req[o] \in Uploads \cup Downloads
  BY <1>1, <1>4 DEF OpInv, Unstarted, Helpers
<1>6. Unstarted(o)'
  BY <1>1, <1>2, <1>3, <1>4, <1>5 DEF OpInv, Unstarted, handlers, Helpers
<1>7. Uploading(o)'
  BY <1>1, <1>2, <1>3, <1>4, <1>5, PrefixEmpty
     DEF OpInv, Uploading, Upload, Said, SaidError, handlers, Helpers
<1>8. Downloading(o)'
  <2>1. CASE Upload(o)
    BY <2>1 DEF Downloading, Download, Upload, handlers
  <2>2. CASE Download(o) /\ openParent(o) \in Inodes
             /\ source' = [source EXCEPT ![o] = openParent(o)]
    <3>1. Lease(o) \in LeaseIDs
      BY <1>5, RequestTypes DEF Lease
    <3>2. source'[o] = file[Lease(o)] /\ source'[o] \in Inodes
      BY <1>1, <2>2 DEF SandboxTypes, openParent
    <3>3. source'[o] \in {Initial} \cup published
      BY <1>1, <3>1, <3>2 DEF Paths, Inodes
    <3>4. data[source'[o]] \in Seq(Blocks)
      BY <1>1, <3>2 DEF SandboxTypes
    <3> QED
      BY <1>1, <1>2, <1>3, <1>5, <3>3, <3>4, PrefixEmpty DEF OpInv, Downloading, Download, Said,
         handlers
  <2> QED
    BY <2>1, <2>2
<1> QED
  BY <1>2, <1>3, <1>6, <1>7, <1>8, ReportFramed DEF OpInv

LEMMA OpenKeeps ==
    ASSUME FileInv, NEW o \in Ops, UploadOpens(o) \/ DownloadOpens(o)
    PROVE FileInv'
<1>1. helper[o] = "open" /\ UNCHANGED handlers
  BY DEF UploadOpens, DownloadOpens
<1>2. \A code \in HelperErrors : HelperFails(o, code) => FileInv'
  BY <1>1, FailsKeeps
<1>3. CASE UploadOpens(o)
  BY <1>1, <1>2, <1>3, OpensKeeps DEF UploadOpens, HelperErrors
<1>4. CASE DownloadOpens(o)
  BY <1>1, <1>2, <1>4, OpensKeeps DEF DownloadOpens, HelperErrors
<1> QED
  BY <1>3, <1>4
LEMMA PrefixGrows ==
    ASSUME NEW s \in Seq(Blocks), NEW t \in Seq(Blocks), Len(s) < Len(t)
    PROVE /\ Append(s, t[Len(s) + 1]) \in Seq(Blocks)
          /\ Len(Append(s, t[Len(s) + 1])) = Len(s) + 1
          /\ Prefix(s, t) => Prefix(Append(s, t[Len(s) + 1]), t)
<1>1. Len(s) \in Nat /\ Len(t) \in Nat /\ t[Len(s) + 1] \in Blocks
  OBVIOUS
<1> DEFINE longer == Append(s, t[Len(s) + 1])
<1>2. /\ longer \in Seq(Blocks) /\ Len(longer) = Len(s) + 1
      /\ \A i \in 1 .. Len(s) : longer[i] = s[i]
      /\ longer[Len(s) + 1] = t[Len(s) + 1]
  BY <1>1, AppendProperties
<1> HIDE DEF longer
<1>3. Prefix(s, t) => Prefix(longer, t)
  BY <1>1, <1>2 DEF Prefix
<1> QED
  BY <1>2, <1>3 DEF longer

LEMMA PrefixWhole ==
    ASSUME NEW s \in Seq(Blocks), NEW t \in Seq(Blocks), Prefix(s, t)
    PROVE /\ SubSeq(t, 1, Len(s)) = s
          /\ Len(s) >= Len(t) => s = t
<1>1. Len(s) \in Nat /\ Len(t) \in Nat /\ Len(s) <= Len(t) /\ \A i \in 1 .. Len(s) : s[i] = t[i]
  BY DEF Prefix
<1>2. \A i \in 1 .. Len(s) : t[i] \in Blocks
  BY <1>1
<1>3. /\ SubSeq(t, 1, Len(s)) \in Seq(Blocks)
      /\ Len(SubSeq(t, 1, Len(s))) = IF 1 <= Len(s) THEN Len(s) - 1 + 1 ELSE 0
      /\ \A i \in 1 .. Len(s) - 1 + 1 : SubSeq(t, 1, Len(s))[i] = t[1 + i - 1]
  BY <1>1, <1>2, SubSeqProperties
<1> DEFINE part == SubSeq(t, 1, Len(s))
<1>4. part \in Seq(Blocks) /\ Len(part) = Len(s) /\ \A i \in 1 .. Len(part) : part[i] = s[i]
  BY <1>1, <1>3
<1> HIDE DEF part
<1>5. part = s
  BY <1>4, SeqEqual
<1>6. Len(s) >= Len(t) => s = t
  BY <1>1, SeqEqual
<1> QED
  BY <1>5, <1>6 DEF part

LEMMA UploadCopiesKeeps ==
    ASSUME FileInv, NEW o \in Ops, UploadCopies(o)
    PROVE FileInv'
<1>1. OpInv(o) /\ HandlerTypes /\ SandboxTypes
  BY TypesAre DEF FileInv
<1>2. /\ Upload(o) /\ helper[o] = "copy" /\ moved[o] < Len(req[o].body)
      /\ moved' = [moved EXCEPT ![o] = moved[o] + 1]
      /\ UNCHANGED <<req, pc, result, run, helper, marker, file, source, temps, published, edits>>
  BY DEF UploadCopies
<1>3. /\ run[o] # None /\ marker[o] = None /\ o \notin published
      /\ Len(data[o]) = moved[o] /\ Prefix(data[o], req[o].body)
  BY <1>1, <1>2, FileAssumption DEF OpInv, Unstarted, Uploading, Helpers
<1>4. req[o].body \in Seq(Blocks) /\ data[o] \in Seq(Blocks)
  BY <1>1, <1>2, <1>3, RequestTypes DEF OpInv, Unstarted, Upload, SandboxTypes, Inodes
<1> DEFINE longer == Append(data[o], req[o].body[Len(data[o]) + 1])
<1>5. longer \in Seq(Blocks) /\ Len(longer) = moved[o] + 1 /\ Prefix(longer, req[o].body)
  BY <1>2, <1>3, <1>4, PrefixGrows
<1>6. data' = [data EXCEPT ![o] = longer]
  BY <1>3 DEF UploadCopies
<1> HIDE DEF longer
<1>7. /\ moved'[o] = moved[o] + 1 /\ data'[o] = longer
      /\ HandlerTypes' /\ SandboxTypes'
      /\ \A p \in Ops \ {o} : HandlersOf(p) /\ HelperOf(p)
  BY <1>1, <1>2, <1>5, <1>6 DEF HandlerTypes, SandboxTypes, HandlersOf, HelperOf, Inodes
<1>8. Alone(o)
  BY <1>2, <1>3, <1>6, <1>7, FileAssumption DEF Alone, FileInv, FileTypes, Inodes
<1>9. None \notin Helpers
  BY FileAssumption
<1>10. Unstarted(o)'
  BY <1>1, <1>2, <1>3, <1>9 DEF OpInv, Unstarted, Helpers
<1>11. Uploading(o)'
  BY <1>1, <1>2, <1>3, <1>5, <1>7 DEF OpInv, Uploading, Upload, Said, SaidError
<1>12. Downloading(o)'
  BY <1>2 DEF Downloading, Download, Upload
<1> QED
  BY <1>7, <1>8, <1>10, <1>11, <1>12, TypesNext, Framed DEF OpInv

LEMMA RenameKeeps ==
    ASSUME FileInv, NEW o \in Ops, UNCHANGED handlers, helper[o] = "copy", Upload(o),
           data[o] = req[o].declared, Rename(o)
    PROVE FileInv'
<1>1. OpInv(o) /\ SandboxTypes
  BY TypesAre DEF FileInv
<1>2. /\ file' = [file EXCEPT ![Lease(o)] = o] /\ temps' = temps \ {o}
      /\ published' = published \cup {o} /\ helper' = [helper EXCEPT ![o] = "report"]
      /\ UNCHANGED <<marker, data, source, edits>>
  BY DEF Rename
<1>3. run[o] # None /\ marker[o] = None /\ Len(data[o]) = moved[o] /\ Prefix(data[o], req[o].body)
  BY <1>1, FileAssumption DEF OpInv, Unstarted, Uploading, Helpers
<1>4. req[o].body \in Seq(Blocks) /\ data[o] \in Seq(Blocks) /\ Lease(o) \in LeaseIDs
  BY <1>1, <1>3, RequestTypes DEF OpInv, Unstarted, Upload, SandboxTypes, Inodes, Lease
<1>5. SubSeq(req[o].body, 1, moved[o]) = req[o].declared
  BY <1>3, <1>4, PrefixWhole
<1>6. /\ SandboxTypes' /\ helper'[o] = "report" /\ o \notin temps' /\ o \in published'
      /\ \A p \in Ops \ {o} : HelperOf(p)
  BY <1>1, <1>2 DEF SandboxTypes, Helpers, HelperOf, Inodes
<1>7. \A id \in LeaseIDs : file'[id] = file[id] \/ file'[id] = o
  BY <1>1, <1>2 DEF SandboxTypes
<1>8. None \notin Helpers
  BY FileAssumption
<1>9. Unstarted(o)'
  BY <1>1, <1>3, <1>6, <1>8 DEF OpInv, Unstarted, handlers, Helpers
<1>10. Uploading(o)'
  BY <1>1, <1>2, <1>3, <1>5, <1>6 DEF OpInv, Uploading, Upload, Said, SaidError, handlers
<1>11. Downloading(o)'
  BY DEF Downloading, Download, Upload, handlers
<1>12. published \subseteq published' /\ \A i \in {Initial} \cup published : data'[i] = data[i]
  BY <1>2
<1> QED
  BY <1>2, <1>6, <1>7, <1>9, <1>10, <1>11, <1>12, HelperFramed DEF OpInv

LEMMA CommitKeeps ==
    ASSUME FileInv, NEW o \in Ops, UploadShort(o) \/ UploadIOFails(o) \/ UploadCommits(o)
    PROVE FileInv'
<1>1. helper[o] = "copy" /\ Upload(o) /\ UNCHANGED handlers
  BY DEF UploadShort, UploadIOFails, UploadCommits
<1>2. \A code \in HelperErrors : HelperFails(o, code) => FileInv'
  BY <1>1, FailsKeeps
<1>3. CASE UploadShort(o) \/ UploadIOFails(o)
  BY <1>2, <1>3 DEF UploadShort, UploadIOFails, HelperErrors
<1>4. CASE UploadCommits(o)
  BY <1>1, <1>2, <1>4, RenameKeeps DEF UploadCommits, HelperErrors, equalDigest
<1> QED
  BY <1>3, <1>4
\* ASP1 OK is written.
LEMMA ReportsKeeps ==
    ASSUME FileInv, NEW o \in Ops, UNCHANGED <<handlers, file, data, source, published, edits>>,
           NEW h \in {"exit0", "send"}, helper' = [helper EXCEPT ![o] = h],
           NEW content \in Seq(Blocks), marker' = [marker EXCEPT ![o] = Marker("OK", content)],
           temps' = temps \/ temps' = temps \ {o},
           \/ h = "exit0" /\ helper[o] = "report"
           \/ /\ h = "send" /\ helper[o] = "copy" /\ Download(o)
              /\ edits = 0 => content = data[source[o]]
    PROVE FileInv'
<1>1. OpInv(o) /\ SandboxTypes
  BY TypesAre DEF FileInv
<1> DEFINE word == Marker("OK", content)
<1>2. word \in Markers /\ word.code = "OK" /\ word.content = content /\ word # None
  <2>1. word \in Markers /\ word.code = "OK" /\ word.content = content
    BY DEF Marker, Markers
  <2> QED
    BY <2>1, FileAssumption
<1>3. marker' = [marker EXCEPT ![o] = word]
  OBVIOUS
<1> HIDE DEF word
<1>4. /\ SandboxTypes' /\ helper'[o] = h /\ marker'[o] = word
      /\ o \in temps' => o \in temps
      /\ \A p \in Ops \ {o} : HelperOf(p)
  BY <1>1, <1>2, <1>3 DEF SandboxTypes, Helpers, HelperOf
<1>5. None \notin Helpers
  BY FileAssumption
<1>6. run[o] # None
  BY <1>1, <1>5 DEF OpInv, Unstarted, Helpers
<1>7. Unstarted(o)'
  BY <1>1, <1>4, <1>5, <1>6 DEF OpInv, Unstarted, handlers, Helpers
<1>8. Uploading(o)'
  <2>1. Upload(o) => helper[o] = "report" /\ h = "exit0"
    BY DEF Upload, Download
  <2> QED
    BY <1>1, <1>2, <1>4, <1>5, <1>6, <2>1
       DEF OpInv, Uploading, Upload, Said, SaidError, handlers, Helpers
<1>9. Downloading(o)'
  <2>1. Download(o) => helper[o] = "copy" /\ h = "send" /\ (edits = 0 => content = data[source[o]])
    BY <1>1, <1>6 DEF OpInv, Downloading
  <2>2. Download(o) => marker[o] = None
    BY <1>1, <2>1 DEF OpInv, Unstarted
  <2> QED
    BY <1>1, <1>2, <1>4, <1>6, <2>1, <2>2 DEF OpInv, Downloading, Download, Said, handlers
<1> QED
  BY <1>4, <1>7, <1>8, <1>9, ReportFramed DEF OpInv

LEMMA DownloadReportsKeeps ==
    ASSUME FileInv, NEW o \in Ops, DownloadReports(o)
    PROVE FileInv'
<1>1. helper[o] = "copy" /\ Download(o) /\ UNCHANGED handlers
  BY DEF DownloadReports
<1>2. \A code \in HelperErrors : HelperFails(o, code) => FileInv'
  BY <1>1, FailsKeeps
<1>3. CASE /\ Len(data[o]) >= Len(data[source[o]]) /\ temps' = temps \ {o}
           /\ marker' = [marker EXCEPT ![o] = Marker("OK", data[o])]
           /\ helper' = [helper EXCEPT ![o] = "send"]
           /\ UNCHANGED <<file, data, source, published, edits>>
  <2>1. OpInv(o) /\ SandboxTypes
    BY TypesAre DEF FileInv
  <2>2. run[o] # None
    BY <1>1, <2>1, FileAssumption DEF OpInv, Unstarted, Helpers
  <2>3. source[o] \in Inodes /\ (edits = 0 => Prefix(data[o], data[source[o]]))
    BY <1>1, <2>1, <2>2 DEF OpInv, Downloading, SandboxTypes, Inodes
  <2>4. data[o] \in Seq(Blocks) /\ data[source[o]] \in Seq(Blocks)
    BY <2>1, <2>3 DEF SandboxTypes, Inodes
  <2>5. edits = 0 => data[o] = data[source[o]]
    BY <1>3, <2>3, <2>4, PrefixWhole
  <2> QED
    BY <1>1, <1>3, <2>4, <2>5, ReportsKeeps
<1> QED
  BY <1>1, <1>2, <1>3 DEF DownloadReports, HelperErrors

LEMMA DownloadCopiesKeeps ==
    ASSUME FileInv, NEW o \in Ops, DownloadCopies(o)
    PROVE FileInv'
<1>1. OpInv(o) /\ SandboxTypes
  BY TypesAre DEF FileInv
<1>2. /\ Download(o) /\ helper[o] = "copy" /\ Len(data[o]) < Len(data[source[o]])
      /\ UNCHANGED <<handlers, helper, marker, file, source, temps, published, edits>>
  BY DEF DownloadCopies
<1>3. /\ run[o] # None /\ marker[o] = None /\ o \notin published /\ result[o] # "OK"
      /\ source[o] \in {Initial} \cup published
      /\ edits = 0 => Prefix(data[o], data[source[o]])
  <2>1. run[o] # None /\ marker[o] = None /\ o \notin published
    BY <1>1, <1>2, FileAssumption DEF OpInv, Unstarted, Helpers
  <2> QED
    BY <1>1, <1>2, <2>1 DEF OpInv, Downloading, Said
<1>4. source[o] \in Inodes /\ o \in Inodes /\ source[o] # o /\ o # Initial
  BY <1>1, <1>3, FileAssumption DEF SandboxTypes, Inodes
<1>5. data[o] \in Seq(Blocks) /\ data[source[o]] \in Seq(Blocks)
  BY <1>1, <1>4 DEF SandboxTypes
<1> DEFINE longer == Append(data[o], data[source[o]][Len(data[o]) + 1])
<1>6. longer \in Seq(Blocks) /\
      (Prefix(data[o], data[source[o]]) => Prefix(longer, data[source[o]]))
  BY <1>2, <1>5, PrefixGrows
<1>7. data' = [data EXCEPT ![o] = longer]
  BY DEF DownloadCopies
<1> HIDE DEF longer
<1>8. /\ data'[o] = longer /\ data'[source[o]] = data[source[o]] /\ SandboxTypes'
      /\ \A p \in Ops \ {o} : HelperOf(p)
      /\ \A i \in {Initial} \cup published : data'[i] = data[i]
  BY <1>1, <1>2, <1>3, <1>4, <1>6, <1>7 DEF SandboxTypes, HelperOf, Inodes
<1>9. None \notin Helpers
  BY FileAssumption
<1>10. Unstarted(o)'
  BY <1>1, <1>2, <1>9 DEF OpInv, Unstarted, handlers, Helpers
<1>11. Uploading(o)'
  BY <1>2 DEF Uploading, Upload, Download, handlers
<1>12. Downloading(o)'
  BY <1>1, <1>2, <1>3, <1>6, <1>8 DEF OpInv, Downloading, Download, Said, handlers
<1> QED
  BY <1>2, <1>8, <1>10, <1>11, <1>12, HelperFramed DEF OpInv

LEMMA DownloadSendsKeeps ==
    ASSUME FileInv, NEW o \in Ops, DownloadSends(o)
    PROVE FileInv'
<1>1. OpInv(o) /\ HandlerTypes
  BY TypesAre DEF FileInv
<1>2. /\ helper[o] = "send" /\ pc[o] = "serve" /\ moved' = [moved EXCEPT ![o] = moved[o] + 1]
      /\ UNCHANGED <<req, pc, result, run, sandbox>>
  BY DEF DownloadSends
<1>3. run[o] # None /\ Download(o) /\ ~Upload(o)
  BY <1>2, ServesDownload
<1>4. /\ HandlerTypes' /\ moved'[o] = moved[o] + 1 /\ \A p \in Ops \ {o} : HandlersOf(p)
  BY <1>1, <1>2 DEF HandlerTypes, HandlersOf
<1>5. Unstarted(o)'
  BY <1>1, <1>2, FileAssumption DEF OpInv, Unstarted, sandbox, Helpers
<1>6. Uploading(o)'
  BY <1>2, <1>3 DEF Uploading, Upload
<1>7. Downloading(o)'
  BY <1>1, <1>2, <1>3 DEF OpInv, Downloading, Download, Said, sandbox
<1> QED
  BY <1>2, <1>4, <1>5, <1>6, <1>7, HandlerFramed DEF OpInv
LEMMA TooLongIsContent == TooLong \in Seq(Blocks)
<1>1. MaxBytes + 1 \in Nat /\ (CHOOSE b \in Blocks : TRUE) \in Blocks
  BY FileAssumption
<1> QED
  BY <1>1 DEF TooLong

\* Another process changes what a path names, or writes the file it names: the history of
\* edits says so, and no file is written that has no name yet.
LEMMA EditKeeps ==
    ASSUME FileInv, NEW id \in LeaseIDs, Edit(id)
    PROVE FileInv'
<1>1. FileTypes /\ Paths /\ \A o \in Ops : OpInv(o)
  BY DEF FileInv
<1>2. edits \in Nat /\ edits' = edits + 1 /\ edits' # 0
      /\ UNCHANGED <<handlers, helper, marker, source, temps, published>>
  BY <1>1 DEF Edit, FileTypes
<1>3. \A c \in Contents \cup {TooLong} : c \in Seq(Blocks)
  BY TooLongIsContent, FileAssumption
<1>4. file' \in [LeaseIDs -> Inodes \cup {Absent, Directory}] /\ data' \in [Inodes -> Seq(Blocks)]
  BY <1>1, <1>3 DEF Edit, FileTypes
<1>5. FileTypes'
  BY <1>1, <1>2, <1>4 DEF FileTypes, handlers
<1>6. Paths'
  <2>1. \A j \in LeaseIDs : file'[j] = file[j] \/ file'[j] \notin Ops
    <3>1. CASE UNCHANGED file
      BY <3>1
    <3>2. CASE \E f \in {Absent, Directory} : file' = [file EXCEPT ![id] = f]
      <4>1. Absent \notin Ops /\ Directory \notin Ops
        BY FileAssumption DEF Inodes
      <4> QED
        BY <1>1, <3>2, <4>1 DEF FileTypes
    <3> QED
      BY <3>1, <3>2 DEF Edit
  <2> QED
    BY <1>1, <1>2, <2>1 DEF Paths
<1>7. \A o \in Ops \ published : data'[o] = data[o]
  <2>1. CASE UNCHANGED data
    BY <2>1
  <2>2. CASE file[id] \in Inodes /\ \E c \in Contents \cup {TooLong} :
             data' = [data EXCEPT ![file[id]] = c]
    <3>1. file[id] \in {Initial} \cup published
      BY <1>1, <2>2 DEF Paths, Inodes
    <3>2. \A o \in Ops \ published : o \in Inodes /\ o # file[id]
      BY <3>1, FileAssumption DEF Inodes
    <3> QED
      BY <1>1, <2>2, <3>2 DEF FileTypes
  <2> QED
    BY <2>1, <2>2 DEF Edit
<1>8. ASSUME NEW o \in Ops PROVE OpInv(o)'
  <2>1. OpInv(o) /\ o \in Ops
    BY <1>1, <1>8
  <2>2. Unstarted(o)'
    BY <1>2, <1>7, <2>1 DEF OpInv, Unstarted, handlers
  <2>3. Uploading(o)'
    <3>1. run[o] # None /\ Upload(o) /\ helper[o] \in {None, "open", "copy"} => o \notin published
      BY <2>1 DEF OpInv, Unstarted
    <3> QED
      BY <1>2, <1>7, <2>1, <3>1 DEF OpInv, Uploading, Upload, Said, SaidError, handlers
  <2>4. Downloading(o)'
    BY <1>2, <1>7, <2>1 DEF OpInv, Downloading, Download, Said, handlers
  <2> QED
    BY <2>2, <2>3, <2>4 DEF OpInv
<1> QED
  BY <1>5, <1>6, <1>8 DEF FileInv
----------------------------------------------------------------------------
(* The invariant, and what it says.                                        *)

LEMMA InitFile == StreamInit => FileInv
<1> SUFFICES ASSUME StreamInit PROVE FileInv
  OBVIOUS
<1>1. Original \in Seq(Blocks) /\ <<>> \in Seq(Blocks) /\ Initial \notin Ops
  BY FileAssumption
<1>2. data \in [Inodes -> Seq(Blocks)]
  BY <1>1 DEF StreamInit
<1>3. FileTypes
  BY <1>2 DEF StreamInit, FileTypes, PCs, Inodes
<1>4. Paths
  BY <1>1, FileAssumption DEF StreamInit, Paths, Inodes
<1>5. ASSUME NEW o \in Ops PROVE OpInv(o)
  <2>1. /\ pc[o] = "new" /\ result[o] = None /\ run[o] = None /\ helper[o] = None
        /\ marker[o] = None
        /\ moved[o] = 0 /\ temps = {} /\ published = {}
    BY DEF StreamInit
  <2>2. data[o] = <<>>
    BY <1>1 DEF StreamInit, Inodes
  <2>3. None # "OK"
    BY FileAssumption DEF Answers
  <2> QED
    BY <2>1, <2>2, <2>3 DEF OpInv, Unstarted, Uploading, Downloading
<1> QED
  BY <1>3, <1>4, <1>5 DEF FileInv

LEMMA HandlerStepKeeps ==
    ASSUME FileInv, NEW o \in Ops, HandlerStep(o)
    PROVE FileInv'
<1>1. CASE Finish(o)
  BY <1>1, Stutters DEF Finish, handlers
<1> QED
  BY <1>1, UploadReturnsKeeps, RunReturnsKeeps, DownloadHandlerKeeps DEF HandlerStep

LEMMA HelperStepKeeps ==
    ASSUME FileInv, NEW o \in Ops, StartHelper(o) \/ HelperStep(o) \/ KillHelper(o)
    PROVE FileInv'
<1>1. CASE StartHelper(o)
  BY <1>1, HelperMoves, FileAssumption DEF StartHelper, Runs
<1>2. CASE UploadReports(o)
  <2>1. CASE helper' = [helper EXCEPT ![o] = "exit1"] /\ UNCHANGED marker
    BY <1>2, <2>1, HelperMoves DEF UploadReports
  <2>2. CASE marker' = [marker EXCEPT ![o] = Marker("OK", <<>>)] /\
             helper' = [helper EXCEPT ![o] = "exit0"]
    <3>1. /\ helper[o] = "report" /\ temps' = temps /\ <<>> \in Seq(Blocks)
          /\ UNCHANGED <<handlers, file, data, source, published, edits>>
      BY <1>2 DEF UploadReports, handlers
    <3> QED
      BY <2>2, <3>1, ReportsKeeps
  <2> QED
    BY <1>2, <2>1, <2>2 DEF UploadReports
<1>3. CASE DownloadExits(o) \/ KillHelper(o)
  BY <1>3, HelperMoves DEF DownloadExits, KillHelper
<1> QED
  BY <1>1, <1>2, <1>3, OpenKeeps, UploadCopiesKeeps, CommitKeeps, DownloadCopiesKeeps,
     DownloadReportsKeeps, DownloadSendsKeeps DEF HelperStep

LEMMA StepFile == FileInv /\ [StreamNext]_svars => FileInv'
<1> SUFFICES ASSUME FileInv, [StreamNext]_svars PROVE FileInv'
  OBVIOUS
<1>1. CASE Crash
  BY <1>1, CrashKeeps
<1>2. ASSUME NEW c \in Callers, StopAborted(c) \/ \E id \in LeaseIDs : StopLease(c, id)
      PROVE FileInv'
  BY <1>2, Stutters DEF StopAborted, StopLease, handlers
<1>3. ASSUME NEW o \in Ops,
             \/ writeFileContent(o) \/ readFileContent(o) \/ Disconnect(o)
             \/ StartHelper(o) \/ HelperStep(o) \/ KillHelper(o) \/ HandlerStep(o)
      PROVE FileInv'
  <2>1. CASE Disconnect(o)
    BY <2>1, Stutters DEF Disconnect
  <2> QED
    BY <1>3, <2>1, BeginKeeps, HelperStepKeeps, HandlerStepKeeps
<1>4. ASSUME NEW id \in LeaseIDs, Edit(id) PROVE FileInv'
  BY <1>4, EditKeeps
<1>5. CASE UNCHANGED svars
  BY <1>5, Stutters DEF svars, handlers
<1> QED
  BY <1>1, <1>2, <1>3, <1>4, <1>5 DEF StreamNext

\* The handlers, the helpers and the files stay in step.
THEOREM TransferInvariant == StreamSpec => []FileInv
BY InitFile, StepFile, PTL DEF StreamSpec

\* An upload answered with 204 has been renamed to the path by its helper, with the
\* declared content (WriteFileStream and writeFileContent).
THEOREM AcknowledgedIsStored == StreamSpec => []AcknowledgedStored
<1>1. FileInv => AcknowledgedStored
  BY DEF FileInv, OpInv, Unstarted, Uploading, AcknowledgedStored
<1> QED
  BY <1>1, TransferInvariant, PTL

\* An upload answered with a validation error has no file and no temporary file, and will
\* have none (runUpload's deferred Unlink, and the order of its checks and Renameat).
THEOREM RejectedIsGone == StreamSpec => []RejectedLeavesNothing
<1>1. FileInv => RejectedLeavesNothing
  BY DEF FileInv, OpInv, Unstarted, Uploading, RejectedLeavesNothing
<1> QED
  BY <1>1, TransferInvariant, PTL

\* The path never names a file in the making, or one that is not what its upload declared
\* (the temporary file of runUpload and Renameat).
THEOREM ReplacedIsWhole == StreamSpec => []ReplacedWhole
<1>1. FileInv => ReplacedWhole
  <2> SUFFICES ASSUME FileInv, NEW id \in LeaseIDs, file[id] \in Ops
               PROVE /\ file[id] \notin temps
                     /\ edits = 0 => data[file[id]] = req[file[id]].declared
    BY DEF ReplacedWhole
  <2>1. PICK o \in Ops : o = file[id]
    OBVIOUS
  <2>2. o \in published /\ OpInv(o)
    BY <2>1 DEF FileInv, Paths
  <2>3. run[o] # None
    BY <2>2 DEF OpInv, Unstarted
  <2>4. ~Download(o) /\ req[o] \in Uploads \cup Downloads
    BY <2>2, <2>3 DEF OpInv, Unstarted, Downloading
  <2>5. Upload(o)
    BY <2>4, RequestTypes DEF Upload, Download
  <2> QED
    BY <2>1, <2>2, <2>3, <2>5 DEF OpInv, Uploading
<1> QED
  BY <1>1, TransferInvariant, PTL

\* A download that ends normally has delivered what its marker announced, which is the file
\* it opened (runDownload's copy, OpenFile and readFileContent).
THEOREM DownloadsAreIntact == StreamSpec => []DownloadsIntact
<1>1. FileInv => DownloadsIntact
  BY DEF FileInv, OpInv, Unstarted, Downloading, DownloadsIntact
<1> QED
  BY <1>1, TransferInvariant, PTL
----------------------------------------------------------------------------
(* Admission.                                                              *)

\* A handler that runs or has run its exec knows its lease.
LEMMA LeaseKnown ==
    ASSUME FileInv, NEW o \in Ops, pc[o] = "run" \/ run[o] \in {"ok", "error"}
    PROVE Lease(o) \in LeaseIDs
<1>1. run[o] # None
  BY FileAssumption DEF FileInv, OpInv, Unstarted, Runs
<1>2. req[o] \in Uploads \cup Downloads
  BY <1>1 DEF FileInv, OpInv, Unstarted
<1> QED
  BY <1>2, RequestTypes DEF Lease

LEMMA ManagerStep == FileInv /\ [StreamNext]_svars => [Next]_vars
<1> SUFFICES ASSUME FileInv, StreamNext PROVE [Next]_vars
  BY DEF svars, vars
<1> DEFINE Call ==
      /\ UNCHANGED now
      /\ \/ \E o \in Ops, id \in LeaseIDs, e \in Expiries : begin(o, id, e)
         \/ \E o \in Ops, id \in LeaseIDs : finish(o, id)
         \/ \E c \in Callers, id \in LeaseIDs : stopLease(c, id)
         \/ \E c \in Callers : waitAborted(c)
         \/ \E o \in Ops : cancel(o)
         \/ restart
         \/ UNCHANGED tvars
<1>1. Call => [Next]_vars
  BY DEF Next, vars
<1> HIDE DEF Call
<1>2. CASE Crash
  BY <1>1, <1>2 DEF Crash, Call
<1>3. ASSUME NEW c \in Callers, StopAborted(c) \/ \E id \in LeaseIDs : StopLease(c, id) PROVE Call
  BY <1>3 DEF StopAborted, StopLease, Call
<1>4. ASSUME NEW o \in Ops, writeFileContent(o) \/ readFileContent(o) PROVE Call
  <2>1. UNCHANGED now /\ \E r \in Uploads \cup Downloads, e \in Expiries : begin(o, r.lid, e) \/
        UNCHANGED tvars
    BY <1>4 DEF writeFileContent, readFileContent, Admit, Refuse, beginRefused
  <2> QED
    BY <2>1, RequestTypes DEF Call
<1>5. ASSUME NEW o \in Ops, Disconnect(o) \/ StartHelper(o) \/ KillHelper(o) PROVE Call
  BY <1>5 DEF Disconnect, StartHelper, KillHelper, Call
<1>6. ASSUME NEW o \in Ops, HelperStep(o) PROVE Call
  BY <1>6 DEF HelperStep, UploadOpens, UploadCopies, UploadShort, UploadIOFails, UploadCommits,
     UploadReports,
     DownloadOpens, DownloadCopies, DownloadReports, DownloadSends, DownloadExits, Call
<1>7. ASSUME NEW o \in Ops, HandlerStep(o) PROVE Call
  <2>1. CASE UploadReturns(o) \/ Finish(o)
    <3>1. Lease(o) \in LeaseIDs /\ finish(o, Lease(o)) /\ UNCHANGED now
      BY <2>1, LeaseKnown DEF UploadReturns, Finish
    <3> QED
      BY <3>1 DEF Call
  <2>2. CASE ReadMarker(o) \/ MarkerMissing(o) \/ CheckMarker(o) \/ ServeEnds(o)
    BY <2>2 DEF ReadMarker, MarkerMissing, CheckMarker, ServeEnds, CloseReader, Call
  <2>3. CASE RunReturns(o) \/ Closed(o)
    BY <2>3 DEF RunReturns, Closed, Call
  <2> QED
    BY <1>7, <2>1, <2>2, <2>3 DEF HandlerStep
<1>8. ASSUME NEW id \in LeaseIDs, Edit(id) PROVE Call
  BY <1>8 DEF Edit, Call
<1> QED
  BY <1>1, <1>2, <1>3, <1>4, <1>5, <1>6, <1>7, <1>8 DEF StreamNext

\* The handlers, execs and helpers together implement the manager on its own: each of their
\* steps is one of its operations or none (OpenFile, WriteFileStream and their defers).
THEOREM TransfersImplementManager == StreamSpec => Spec
<1>1. StreamInit => Init
  BY DEF StreamInit
<1> QED
  BY <1>1, ManagerStep, TransferInvariant, PTL DEF StreamSpec, Spec

\* So they keep the manager's limits and counters (transferManager in transfer.go).
THEOREM TransfersStayWithinLimits == StreamSpec => []TransferAccounting
BY TransfersImplementManager, TransferLimits, PTL

\* A transfer of a lease that was stopped has been cancelled (stopLease).
THEOREM StoppedTransfersAreCancelled == StreamSpec => []StoppedAreCancelled
BY TransfersImplementManager, StopCancels, PTL
=============================================================================
