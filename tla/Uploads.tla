------------------------------ MODULE Uploads ------------------------------
(* storeAsset: equal bytes are to be stored once, at IPFS or, failing that,*)
(* at Arweave, with one row per content and one reference per uploader.    *)
(* A request runs until its next await; between two awaits anybody moves.  *)
EXTENDS Naturals, FiniteSets

CONSTANTS File, Large,      \* contents; those too large for IPFS
          Uploader, Request,
          Attempts,         \* tries at either provider, 2 by default
          MaxUploadFaults   \* bound: lost answers, refused saves and restarts

UploadConstants == /\ File # {} /\ Uploader # {} /\ Large \subseteq File
                   /\ Attempts \in Nat \ {0} /\ MaxUploadFaults \in Nat

VARIABLES asset,     \* the stored_assets row of a content: the copy it names
          refs,      \* stored_asset_references
          upload,    \* the call of storeAsset each request is in
          pinned,    \* contents at IPFS
          arweave,   \* number of copies of a content at Arweave
          retryQueue,\* what the in-memory retry queue holds; nothing reads it
          given,     \* history: the copies callers were told of
          uploadFaults

uploadVars == <<asset, refs, upload, pinned, arweave, retryQueue, given, uploadFaults>>

(* IPFS names a copy by its content, Arweave numbers them.                 *)
NoCopy == 0
Cid    == 1
Copy   == 0..(Cardinality(Request) + MaxUploadFaults + 2)
NoCall == [pc |-> "idle", file |-> CHOOSE f \in File : TRUE,
           who |-> CHOOSE u \in Uploader : TRUE, try |-> 1, copy |-> NoCopy]

TypeOK ==
    /\ asset \in [File -> Copy] /\ refs \subseteq File \X Uploader
    /\ upload \in [Request -> [pc : {"idle", "looking", "ipfs", "arweave", "saving", "referring"},
                               file : File, who : Uploader, try : 1..Attempts, copy : Copy]]
    /\ pinned \subseteq File /\ arweave \in [File -> Copy]
    /\ retryQueue \subseteq File \X {"ipfs", "arweave", "combined"}
    /\ given \in [File -> SUBSET Copy]
    /\ uploadFaults \in 0..MaxUploadFaults

Init ==
    /\ asset = [f \in File |-> NoCopy] /\ refs = {}
    /\ upload = [r \in Request |-> NoCall]
    /\ pinned = {} /\ arweave = [f \in File |-> 0] /\ retryQueue = {}
    /\ given = [f \in File |-> {}] /\ uploadFaults = 0

Bytes(r)     == upload[r].file
Step(r, pc)  == upload' = [upload EXCEPT ![r].pc = pc, ![r].try = 1]
EndUpload(r) == upload' = [upload EXCEPT ![r] = NoCall]
UploadFault  == uploadFaults < MaxUploadFaults /\ uploadFaults' = uploadFaults + 1

-----------------------------------------------------------------------------
Store(r, f, u) ==
    /\ upload[r].pc = "idle"
    /\ upload' = [upload EXCEPT ![r] = [NoCall EXCEPT !.pc = "looking", !.file = f, !.who = u]]
    /\ UNCHANGED <<asset, refs, pinned, arweave, retryQueue, given, uploadFaults>>

Known(f) == asset[f] # NoCopy

(* The bytes are looked up; large ones skip IPFS.                          *)
Look(r) ==
    /\ upload[r].pc = "looking"
    /\ upload' = IF Known(Bytes(r))
                 THEN [upload EXCEPT ![r].pc = "referring", ![r].copy = asset[Bytes(r)]]
                 ELSE [upload EXCEPT ![r].pc = IF Bytes(r) \in Large THEN "arweave" ELSE "ipfs"]
    /\ UNCHANGED <<asset, refs, pinned, arweave, retryQueue, given, uploadFaults>>

(* The provider takes the bytes: the copy it made.                         *)
Provided(r, copy) ==
    \/ /\ upload[r].pc = "ipfs" /\ copy = Cid
       /\ pinned' = pinned \cup {Bytes(r)} /\ UNCHANGED arweave
    \/ /\ upload[r].pc = "arweave" /\ copy = Cid + arweave[Bytes(r)] + 1
       /\ arweave' = [arweave EXCEPT ![Bytes(r)] = @ + 1] /\ UNCHANGED pinned

Upload(r) ==
    /\ \E copy \in Copy :
         /\ Provided(r, copy)
         /\ upload' = [upload EXCEPT ![r].pc = "saving", ![r].copy = copy]
    /\ UNCHANGED <<asset, refs, retryQueue, given, uploadFaults>>

(* A try failed: another, then the other provider, then the caller is      *)
(* refused; what gave up goes into the retry queue.                        *)
TryFails(r) ==
    \/ /\ upload[r].try < Attempts
       /\ upload' = [upload EXCEPT ![r].try = @ + 1]
       /\ UNCHANGED retryQueue
    \/ /\ upload[r].try = Attempts /\ upload[r].pc = "ipfs"
       /\ Step(r, "arweave")
       /\ retryQueue' = retryQueue \cup {<<Bytes(r), "ipfs">>}
    \/ /\ upload[r].try = Attempts /\ upload[r].pc = "arweave"
       /\ EndUpload(r)
       /\ retryQueue' = retryQueue \cup {<<Bytes(r), "arweave">>, <<Bytes(r), "combined">>}

ProviderFails(r) ==
    /\ upload[r].pc \in {"ipfs", "arweave"}
    /\ TryFails(r)
    /\ UNCHANGED <<asset, refs, pinned, arweave, given, uploadFaults>>

(* The provider has the bytes, and its answer is lost.                     *)
AnswerLost(r) ==
    /\ UploadFault
    /\ \E copy \in Copy : Provided(r, copy)
    /\ TryFails(r)
    /\ UNCHANGED <<asset, refs, given>>

-----------------------------------------------------------------------------
(* Mutant: saving overwrites a row with the same hash.                     *)
SaveOverwrites(r) ==
    /\ upload[r].pc = "saving"
    /\ asset' = [asset EXCEPT ![Bytes(r)] = upload[r].copy]
    /\ Step(r, "referring")
    /\ UNCHANGED <<refs, pinned, arweave, retryQueue, given, uploadFaults>>

(* fileHash is unique: whoever saves second is refused, copy or no copy.   *)
Save(r) ==
    /\ upload[r].pc = "saving"
    /\ \/ /\ asset[Bytes(r)] = NoCopy
          /\ asset' = [asset EXCEPT ![Bytes(r)] = upload[r].copy]
          /\ Step(r, "referring")
       \/ /\ asset[Bytes(r)] # NoCopy
          /\ EndUpload(r) /\ UNCHANGED asset
    /\ UNCHANGED <<refs, pinned, arweave, retryQueue, given, uploadFaults>>

(* recordReference, then the answer.                                       *)
Refer(r) ==
    /\ upload[r].pc = "referring"
    /\ refs' = refs \cup {<<Bytes(r), upload[r].who>>}
    /\ given' = [given EXCEPT ![Bytes(r)] = @ \cup {upload[r].copy}]
    /\ EndUpload(r)
    /\ UNCHANGED <<asset, pinned, arweave, retryQueue, uploadFaults>>

StatementRefused(r) ==
    /\ UploadFault /\ upload[r].pc \in {"looking", "saving", "referring"}
    /\ EndUpload(r)
    /\ UNCHANGED <<asset, refs, pinned, arweave, retryQueue, given>>

(* The instance restarts: its requests and its retry queue are gone.       *)
UploadCrash ==
    /\ UploadFault /\ \E r \in Request : upload[r].pc # "idle"
    /\ upload' = [r \in Request |-> NoCall] /\ retryQueue' = {}
    /\ UNCHANGED <<asset, refs, pinned, arweave, given>>

Next ==
    \/ UploadCrash
    \/ \E r \in Request :
         \/ \E f \in File, u \in Uploader : Store(r, f, u)
         \/ Look(r) \/ Upload(r) \/ ProviderFails(r) \/ AnswerLost(r)
         \/ Save(r) \/ Refer(r) \/ StatementRefused(r)

Spec == Init /\ [][Next]_uploadVars

-----------------------------------------------------------------------------
(* Whoever stored the same bytes was told of the same copy: what one       *)
(* caller puts into its metadata is what the table names for the others.   *)
AnswersAgree == \A f \in File : Cardinality(given[f]) <= 1

Copies(f) == arweave[f] + Cardinality(pinned \cap {f})

(* Not kept: "the bytes on IPFS/Arweave are still stored once".            *)
StoredOnce == \A f \in File : Copies(f) <= 1
=============================================================================
