---------------------------- MODULE CsvTransfers ----------------------------
(* CSV imports, previews and exports of one process: the slot they share, the *)
(* budget of temporary bytes, and the digests that tie an import to the       *)
(* preview its user confirmed.                                                *)
(*                                                                            *)
(* What an import writes is in Ledger; here the ledger is the rows it holds   *)
(* and how many of each.  A digest is the value it was computed from.  Any    *)
(* step may fail: the input, the disk, the database or a cancelled request.   *)
EXTENDS FiniteSetsExt, Integers

CONSTANTS
  Procs, None,
  Rows,         \* pairs of what a row is compared by and its memo
  Sources,      \* CSV files: v3, rows, images
  MaxCSVImportBytes, MaxCSVImportWireBytes, MaxCSVJSONWireBytes,
  Scratch,      \* maxCSVImageDecodeScratchBytes
  Encoded,      \* an image in Base64, which its decoder sizes as Worst
  Worst, Exact, \* an image as admitted, and as decoded
  MaxStored     \* bound of the model: copies of a row in the ledger

MaxCSVTempBudgetBytes == 2 * MaxCSVImportWireBytes

VARIABLES
  slot,         \* csvHeavySlots: the goroutine in it
  used,         \* csvTempBudget.used
  writer,       \* the goroutine with SQLite's write reservation
  ledger,       \* how many of each row are stored
  op,           \* the operation of each goroutine
  screen        \* the preview each user has before them

vars == <<slot, used, writer, ledger, op, screen>>

Kinds == {"csv", "json", "file", "string"}
Places == {"body", "image", "copy", "scratch"}
Nothing == [n \in Places |-> 0]
Idle == [pc |-> "idle", kind |-> "csv", source |-> None, mode |-> "append", preview |-> FALSE,
         pins |-> None, todo |-> 0, then |-> "finish", seen |-> None, res |-> Nothing, live |-> Nothing]

\* What an operation reserves for its body before there is one.
BodyLimit(kind) ==
  CASE kind = "csv" -> MaxCSVImportWireBytes
    [] kind = "json" -> MaxCSVJSONWireBytes
    [] kind = "file" -> MaxCSVImportBytes + 1
    [] kind = "download" -> MaxCSVImportBytes
    [] OTHER -> 0

Stored(l) == MapThenSumSet(LAMBDA r : l[r], Rows)
Fits(l) == \A r \in Rows : l[r] \in 0..MaxStored

TypeOK ==
  /\ slot \in Procs \cup {None} /\ writer \in Procs \cup {None}
  /\ used \in Nat /\ ledger \in [Rows -> Nat]
  /\ DOMAIN op = Procs /\ DOMAIN screen = Procs
  /\ \A p \in Procs : /\ op[p].source \in Sources \cup {None}
                      /\ op[p].res \in [Places -> Nat] /\ op[p].live \in [Places -> Nat]

Init ==
  /\ slot = None /\ used = 0 /\ writer = None
  /\ ledger = [r \in Rows |-> 0]
  /\ op = [p \in Procs |-> Idle] /\ screen = [p \in Procs |-> None]

At(p, pc) == op[p].pc = pc
Become(p, new) == op' = [op EXCEPT ![p] = new]
Goto(p, pc) == Become(p, [op[p] EXCEPT !.pc = pc])

\* A handler that is on its way out: nothing is left of it but what it holds.
Leaving(p, pc) == [Idle EXCEPT !.pc = pc, !.res = op[p].res, !.live = op[p].live]

----------------------------------------------------------------------------
(* The budget.                                                                *)

\* Reserve before the bytes exist.
TryAcquireCSVTempBudget(bytes) ==
  /\ bytes \in 1..MaxCSVTempBudgetBytes
  /\ used <= MaxCSVTempBudgetBytes - bytes
  /\ used' = used + bytes

\* The exact size takes the place of the reserved one, with no gap between.
ResizeCSVTempBudget(reserved, actual) ==
  /\ {reserved, actual} \subseteq 1..MaxCSVTempBudgetBytes
  /\ used >= reserved
  /\ actual > reserved => used <= MaxCSVTempBudgetBytes - (actual - reserved)
  /\ used' = used + (actual - reserved)

Release(bytes) == used' = used - bytes

----------------------------------------------------------------------------
(* Admission: a body is reserved for, spooled, and only then the slot taken.  *)

Begin(p, kind, source, mode, preview, pins) ==
  /\ At(p, "idle")
  /\ preview => kind \in {"csv", "json"}
  /\ pins # None => kind = "csv" /\ ~preview
  /\ screen' = [screen EXCEPT ![p] = None]
  /\ LET request == [Idle EXCEPT !.kind = kind, !.source = source, !.mode = mode,
                                 !.preview = preview, !.pins = pins, !.todo = source.images,
                                 !.res.body = BodyLimit(kind)]
     IN IF kind = "string" THEN Become(p, [request EXCEPT !.pc = "slot"]) /\ UNCHANGED used
        ELSE TryAcquireCSVTempBudget(BodyLimit(kind)) /\ Become(p, [request EXCEPT !.pc = "spool"])
  /\ UNCHANGED <<slot, writer, ledger>>

\* The upload, or the private copy of the chosen file.
Spool(p) ==
  /\ At(p, "spool")
  /\ Become(p, [op[p] EXCEPT !.pc = "slot", !.live.body = op[p].res.body])
  /\ UNCHANGED <<slot, used, writer, ledger, screen>>

TryAcquireCSVOperationSlot(p, then) ==
  IF slot = None THEN slot' = p /\ Goto(p, then)
  ELSE Become(p, Leaving(p, "cleanup")) /\ UNCHANGED slot

Admit(p) ==
  /\ At(p, "slot")
  /\ TryAcquireCSVOperationSlot(p, IF op[p].source.v3 \/ op[p].mode = "append" THEN "parse" ELSE "finish")
  /\ UNCHANGED <<used, writer, ledger, screen>>

----------------------------------------------------------------------------
(* parseCSVV3Reader, for the images of the file.                              *)

\* Files and raw uploads put decoded images in private files.
SpoolsImages(p) == op[p].kind \in {"csv", "file"} /\ ~op[p].preview

AdmitImage(p) ==
  /\ At(p, "parse") /\ op[p].todo > 0
  /\ TryAcquireCSVTempBudget(Worst)
  /\ Become(p, [op[p] EXCEPT !.pc = "decode", !.res.image = @ + Worst])
  /\ UNCHANGED <<slot, writer, ledger, screen>>

DecodeImage(p) ==
  /\ At(p, "decode")
  /\ ResizeCSVTempBudget(Worst, Exact)
  /\ Become(p, [op[p] EXCEPT !.pc = "decoded", !.res.image = @ - Worst + Exact, !.live.image = @ + Exact])
  /\ UNCHANGED <<slot, writer, ledger, screen>>

PrepareImage(p) ==
  /\ At(p, "decoded")
  /\ TryAcquireCSVTempBudget(Scratch)
  /\ Become(p, [op[p] EXCEPT !.pc = "prepare", !.res.scratch = Scratch, !.live.scratch = Scratch])
  /\ UNCHANGED <<slot, writer, ledger, screen>>

\* An image from before today's limits is kept as it is.
KeepArchivedImage(p) ==
  /\ At(p, "decoded")
  /\ Goto(p, "prepare")
  /\ UNCHANGED <<slot, used, writer, ledger, screen>>

ImagePrepared(p) ==
  /\ At(p, "prepare")
  /\ Release(op[p].res.scratch)
  /\ Become(p, [op[p] EXCEPT !.pc = IF SpoolsImages(p) THEN "copy" ELSE "parse",
                             !.todo = IF SpoolsImages(p) THEN @ ELSE @ - 1,
                             !.res.scratch = 0, !.live.scratch = 0])
  /\ UNCHANGED <<slot, writer, ledger, screen>>

\* While it is written an image is in memory and in its file.
SpoolImage(p) ==
  /\ At(p, "copy")
  /\ TryAcquireCSVTempBudget(Exact)
  /\ Become(p, [op[p] EXCEPT !.pc = "write", !.res.copy = Exact, !.live.copy = Exact])
  /\ UNCHANGED <<slot, writer, ledger, screen>>

ImageSpooled(p) ==
  /\ At(p, "write")
  /\ Release(op[p].res.copy)
  /\ Become(p, [op[p] EXCEPT !.pc = "parse", !.todo = @ - 1, !.res.copy = 0, !.live.copy = 0])
  /\ UNCHANGED <<slot, writer, ledger, screen>>

\* A preview gives the images back at once, an import keeps them.
Parsed(p) ==
  /\ At(p, "parse") /\ op[p].todo = 0
  /\ Become(p, IF op[p].preview THEN [op[p] EXCEPT !.pc = "unparse", !.then = "classify"]
               ELSE [op[p] EXCEPT !.pc = "begin"])
  /\ UNCHANGED <<slot, used, writer, ledger, screen>>

\* csvV3Import.cleanup: first the bytes go, then what was reserved for them.  A file that cannot
\* be removed stays behind, paid for by nobody, and its import is not committed.
cleanupBytes(p) ==
  /\ At(p, "unparse")
  /\ \E then \in {op[p].then, "finish"} :
       Become(p, [op[p] EXCEPT !.pc = "unreserve", !.then = then,
                               !.live = [Nothing EXCEPT !.body = op[p].live.body]])
  /\ UNCHANGED <<slot, used, writer, ledger, screen>>

cleanupReservations(p) ==
  /\ At(p, "unreserve")
  /\ Release(op[p].res.image + op[p].res.copy + op[p].res.scratch)
  /\ Become(p, [op[p] EXCEPT !.pc = op[p].then, !.res = [Nothing EXCEPT !.body = op[p].res.body]])
  /\ UNCHANGED <<slot, writer, ledger, screen>>

----------------------------------------------------------------------------
(* The preview: counts and digest of one snapshot of the ledger.              *)

\* Rows already stored, rows stored with another memo, and the others.
Classify(rows, l) ==
  LET duplicate == {r \in rows : l[r] > 0}
      conflict == {r \in rows \ duplicate : \E s \in Rows : s[1] = r[1] /\ l[s] > 0}
  IN [duplicate |-> Cardinality(duplicate), conflict |-> Cardinality(conflict),
      new |-> Cardinality(rows \ (duplicate \cup conflict))]

LoadStored(p) ==
  /\ At(p, "classify")
  /\ Become(p, [op[p] EXCEPT !.pc = "pin", !.seen = ledger])
  /\ UNCHANGED <<slot, used, writer, ledger, screen>>

TargetOutsideSnapshot(p) == ledger

\* ledgerContentDigest, in the transaction that counted.
TargetDigest(p) == op[p].seen

BuildPreview(p) ==
  /\ At(p, "pin")
  /\ screen' = [screen EXCEPT ![p] =
       [source |-> op[p].source, target |-> TargetDigest(p), counts |-> Classify(op[p].source.rows, op[p].seen),
        impact |-> IF op[p].mode = "replace" THEN Stored(op[p].seen) ELSE None]]
  /\ Become(p, Leaving(p, "finish"))
  /\ UNCHANGED <<slot, used, writer, ledger>>

----------------------------------------------------------------------------
(* The import.                                                                *)

\* A source other than the pinned one is refused before the ledger is touched.
BeginWrite(p) ==
  /\ At(p, "begin")
  /\ op[p].pins # None => op[p].pins.source = op[p].source
  /\ writer = None
  /\ writer' = p /\ Goto(p, "verify")
  /\ UNCHANGED <<slot, used, ledger, screen>>

VerifyPins(p) ==
  /\ At(p, "verify")
  /\ op[p].pins # None => op[p].pins.target = ledger
  /\ Become(p, [op[p] EXCEPT !.pc = "insert", !.todo = IF SpoolsImages(p) THEN op[p].source.images ELSE 0])
  /\ UNCHANGED <<slot, used, writer, ledger, screen>>

ReadReleasesEarly(p) ==
  /\ At(p, "insert") /\ op[p].todo > 0
  /\ used <= MaxCSVTempBudgetBytes - Exact
  /\ Become(p, [op[p] EXCEPT !.pc = "inserting", !.live.copy = Exact])
  /\ UNCHANGED <<slot, used, writer, ledger, screen>>

\* A spooled image is in memory again until the database has taken it.
ReadCSVTempImage(p) ==
  /\ At(p, "insert") /\ op[p].todo > 0
  /\ TryAcquireCSVTempBudget(Exact)
  /\ Become(p, [op[p] EXCEPT !.pc = "inserting", !.res.copy = Exact, !.live.copy = Exact])
  /\ UNCHANGED <<slot, writer, ledger, screen>>

ImageInserted(p) ==
  /\ At(p, "inserting")
  /\ Release(op[p].res.copy)
  /\ Become(p, [op[p] EXCEPT !.pc = "insert", !.todo = @ - 1, !.res.copy = 0, !.live.copy = 0])
  /\ UNCHANGED <<slot, writer, ledger, screen>>

Inserted(p) ==
  /\ At(p, "insert") /\ op[p].todo = 0
  /\ Become(p, IF op[p].source.v3 THEN [op[p] EXCEPT !.pc = "unparse", !.then = "commit"]
               ELSE [op[p] EXCEPT !.pc = "commit"])
  /\ UNCHANGED <<slot, used, writer, ledger, screen>>

\* The ledger after the file was added to it, or has replaced it.  The snapshot that follows a
\* commit is in InstanceLifecycle.
Imported(p) ==
  LET added(r) == IF r \in op[p].source.rows THEN 1 ELSE 0
  IN [r \in Rows |-> added(r) + IF op[p].mode = "replace" THEN 0 ELSE ledger[r]]

Commit(p) ==
  /\ At(p, "commit")
  /\ Fits(Imported(p))
  /\ ledger' = Imported(p) /\ writer' = None
  /\ Become(p, Leaving(p, "finish"))
  /\ UNCHANGED <<slot, used, screen>>

----------------------------------------------------------------------------
(* Exports: into a reserved file that is sent once the slot is free again, or *)
(* straight to their destination.                                             *)

BeginExport(p, kind) ==
  /\ At(p, "idle")
  /\ screen' = [screen EXCEPT ![p] = None]
  /\ IF kind = "backup" THEN UNCHANGED used ELSE TryAcquireCSVTempBudget(BodyLimit(kind))
  /\ Become(p, [Idle EXCEPT !.pc = "export", !.kind = kind, !.res.body = BodyLimit(kind)])
  /\ UNCHANGED <<slot, writer, ledger>>

AdmitExport(p) ==
  /\ At(p, "export")
  /\ TryAcquireCSVOperationSlot(p, "generate")
  /\ UNCHANGED <<used, writer, ledger, screen>>

\* An image stays admitted, decoded and encoded, until its record is written.
ExportImage(p) ==
  /\ At(p, "generate")
  /\ TryAcquireCSVTempBudget(Scratch)
  /\ Become(p, [op[p] EXCEPT !.pc = "encode", !.res.scratch = Scratch, !.live.scratch = Scratch,
                             !.live.body = op[p].res.body])
  /\ UNCHANGED <<slot, writer, ledger, screen>>

EncodeImage(p) ==
  /\ At(p, "encode")
  /\ TryAcquireCSVTempBudget(Encoded)
  /\ Become(p, [op[p] EXCEPT !.pc = "encoded", !.res.copy = Encoded, !.live.copy = Encoded])
  /\ UNCHANGED <<slot, writer, ledger, screen>>

ImageWritten(p) ==
  /\ At(p, "encoded")
  /\ Release(op[p].res.copy + op[p].res.scratch)
  /\ Become(p, [op[p] EXCEPT !.pc = "generate", !.res = [Nothing EXCEPT !.body = op[p].res.body],
                             !.live = [Nothing EXCEPT !.body = op[p].live.body]])
  /\ UNCHANGED <<slot, writer, ledger, screen>>

Generated(p) ==
  /\ At(p, "generate")
  /\ slot' = None
  /\ Become(p, [Leaving(p, IF op[p].kind = "download" THEN "stream" ELSE "cleanup")
                EXCEPT !.live.body = op[p].res.body])
  /\ UNCHANGED <<used, writer, ledger, screen>>

Streamed(p) == At(p, "stream") /\ Goto(p, "cleanup") /\ UNCHANGED <<slot, used, writer, ledger, screen>>

----------------------------------------------------------------------------
(* Every way out: the transaction, what was parsed, the slot, the body's file *)
(* and last the reservation for it.                                           *)

Fail(p) ==
  /\ Become(p, Leaving(p, CASE op[p].pc \in {"spool", "slot"} -> "cleanup"
                            [] op[p].pc \in {"classify", "pin", "commit"} -> "finish"
                            [] OTHER -> "unparse"))
  /\ op[p].pc \notin {"idle", "export", "stream", "unparse", "unreserve", "finish", "cleanup", "release"}
  /\ writer' = IF writer = p THEN None ELSE writer
  /\ UNCHANGED <<slot, used, ledger, screen>>

Finish(p) ==
  /\ At(p, "finish")
  /\ slot' = None /\ writer' = IF writer = p THEN None ELSE writer
  /\ Become(p, Leaving(p, "cleanup"))
  /\ UNCHANGED <<used, ledger, screen>>

RemoveBody(p) ==
  /\ At(p, "cleanup")
  /\ Become(p, [op[p] EXCEPT !.pc = "release", !.live.body = 0])
  /\ UNCHANGED <<slot, used, writer, ledger, screen>>

ReleaseBody(p) ==
  /\ At(p, "release")
  /\ Release(op[p].res.body)
  /\ Become(p, Idle)
  /\ UNCHANGED <<slot, writer, ledger, screen>>

\* Every other write of the ledger: it takes the write reservation too.
OtherWrite ==
  /\ writer = None
  /\ \E r \in Rows, n \in {-1, 1} :
       /\ ledger' = [ledger EXCEPT ![r] = @ + n]
       /\ Fits(ledger')
  /\ UNCHANGED <<slot, used, writer, op, screen>>

Request(p) ==
  \/ \E kind \in Kinds, source \in Sources, mode \in {"append", "replace"}, preview \in BOOLEAN,
        pins \in {None, screen[p]} : Begin(p, kind, source, mode, preview, pins)
  \/ \E kind \in {"download", "backup"} : BeginExport(p, kind)

Next ==
  \/ \E p \in Procs :
       \/ Request(p) \/ Spool(p) \/ Admit(p)
       \/ AdmitImage(p) \/ DecodeImage(p) \/ PrepareImage(p) \/ KeepArchivedImage(p)
       \/ ImagePrepared(p) \/ SpoolImage(p) \/ ImageSpooled(p) \/ Parsed(p) \/ cleanupBytes(p) \/ cleanupReservations(p)
       \/ LoadStored(p) \/ BuildPreview(p)
       \/ BeginWrite(p) \/ VerifyPins(p) \/ ReadCSVTempImage(p) \/ ImageInserted(p) \/ Inserted(p) \/ Commit(p)
       \/ AdmitExport(p) \/ ExportImage(p) \/ EncodeImage(p) \/ ImageWritten(p) \/ Generated(p) \/ Streamed(p)
       \/ Fail(p) \/ Finish(p) \/ RemoveBody(p) \/ ReleaseBody(p)
  \/ OtherWrite

Spec == Init /\ [][Next]_vars

----------------------------------------------------------------------------
\* What the user confirmed is what happens: when a pinned import commits, the preview's counts
\* still classify its rows against the ledger it is added to, and a replacement deletes as many
\* rows as the preview said, whatever was written between the two requests.
PreviewHolds ==
  \A p \in Procs : LET o == op[p] IN
    o.pc = "commit" /\ o.pins # None =>
      /\ o.pins.source = o.source
      /\ o.pins.counts = Classify(o.source.rows, ledger)
      /\ o.pins.impact \in {None, Stored(ledger)}

\* The budget counts what the operations under way have reserved, within its limit, and every
\* body, image, working copy and decoder buffer an operation holds is paid for by it; one that
\* ended, also by an error between any two steps, has given everything back.
BudgetCoversLive ==
  LET sum(f) == f.body + f.image + f.copy + f.scratch
  IN /\ used = MapThenSumSet(LAMBDA p : sum(op[p].res), Procs)
     /\ used <= MaxCSVTempBudgetBytes
     /\ \A p \in Procs : /\ \A n \in Places : op[p].live[n] <= op[p].res[n]
                         /\ op[p].pc = "idle" => slot # p /\ writer # p
=============================================================================
