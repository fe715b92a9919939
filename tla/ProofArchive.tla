------------------------------ MODULE ProofArchive ------------------------------
(***************************************************************************)
(* The evidence archive of livestream questions: uploads of clips, each a  *)
(* temporary file, then a named file, then a row, with a crash or a failed *)
(* call between any two; and the challenge references registered after     *)
(* their transaction was verified.  A clip's bundle is abstracted to its   *)
(* evidence hash, which the bundle's fields and the clip's bytes determine.*)
(***************************************************************************)
EXTENDS Integers, FiniteSets

CONSTANTS Uploads,        \* upload requests; each gets a file id of its own
          Evidence,       \* evidence hashes
          References,     \* challenges to register: [hash, market, transaction]
          KeepsFirst,     \* the store: Postgres keeps a first row quietly, SQLite refuses a second
          MaxBreaks       \* bound: failures and crashes

ASSUME ArchiveAssumption == KeepsFirst \in BOOLEAN /\ MaxBreaks \in Nat

VARIABLES upload,         \* each request: pc and the hash its bytes will have
          temporary, named,         \* files, by upload id
          proofs,                   \* rows: [id, hash]
          registering, challenges,  \* requests under way; rows
          answered,                 \* what each registration was answered
          breaks

archiveVars == <<upload, temporary, named, proofs, registering, challenges, answered, breaks>>

Break == breaks < MaxBreaks /\ breaks' = breaks + 1
Goes(u, pc) == upload' = [upload EXCEPT ![u].pc = pc]
Nothing == [hash |-> "none", market |-> "none", transaction |-> "none"]

-------------------------------------------------------------------------------
(* record *)

OpenUpload(u) ==
    /\ upload[u].pc = "New"
    /\ temporary' = temporary \union {u}
    /\ Goes(u, "Stream")
    /\ UNCHANGED <<named, proofs, breaks>>

\* Too large, cut off, or no MP4: the temporary file is removed.
UploadRejected(u) ==
    /\ upload[u].pc = "Stream"
    /\ temporary' = temporary \ {u}
    /\ Goes(u, "Refused")
    /\ UNCHANGED <<named, proofs, breaks>>

\* The bundle is already archived, or will be under this id.
LookUpProof(u) ==
    /\ upload[u].pc = "Stream"
    /\ IF \E row \in proofs : row.hash = upload[u].hash
       THEN temporary' = temporary \ {u} /\ Goes(u, "Stored")
       ELSE temporary' = temporary /\ Goes(u, "Rename")
    /\ UNCHANGED <<named, proofs, breaks>>

\* As if the row were written before the file has its name.
RenameLast(u) ==
    /\ upload[u].pc = "Rename"
    /\ proofs' = proofs \union {[id |-> u, hash |-> upload[u].hash]}
    /\ Goes(u, "Put")
    /\ UNCHANGED <<temporary, named, breaks>>

RenameClip(u) ==
    /\ upload[u].pc = "Rename"
    /\ temporary' = temporary \ {u} /\ named' = named \union {u}
    /\ Goes(u, "Put")
    /\ UNCHANGED <<proofs, breaks>>

\* The hash is unique; a row that is refused takes its file with it.
PutProof(u) ==
    /\ upload[u].pc = "Put"
    /\ IF \E row \in proofs : row.hash = upload[u].hash
       THEN proofs' = proofs /\ named' = named \ {u} /\ Goes(u, "Refused")
       ELSE /\ proofs' = proofs \union {[id |-> u, hash |-> upload[u].hash]}
            /\ named' = named /\ Goes(u, "Stored")
    /\ UNCHANGED <<temporary, breaks>>

UploadCrashes(u) ==
    /\ upload[u].pc \in {"Stream", "Rename", "Put"}
    /\ Break
    /\ Goes(u, "Lost")
    /\ UNCHANGED <<temporary, named, proofs>>

-------------------------------------------------------------------------------
(* registerChallenge, after the API has verified the transaction. *)

LookUpChallenge(c) ==
    /\ c \notin registering /\ c \notin DOMAIN answered
    /\ LET known == {row \in challenges : row.hash = c.hash} IN
       IF known = {} THEN registering' = registering \union {c} /\ UNCHANGED answered
       ELSE /\ answered' = [d \in DOMAIN answered \union {c} |->
                   IF d # c THEN answered[d] ELSE IF c \in known THEN c ELSE Nothing]
            /\ UNCHANGED registering
    /\ UNCHANGED challenges

PutChallenge(c) ==
    /\ c \in registering
    /\ registering' = registering \ {c}
    /\ LET clash == {row \in challenges : \/ row.hash = c.hash
                                          \/ ~KeepsFirst /\ row.transaction = c.transaction}
           kept == IF KeepsFirst THEN clash ELSE {}
       IN  /\ challenges' = IF clash = {} THEN challenges \union {c} ELSE challenges
           /\ answered' = [d \in DOMAIN answered \union {c} |->
                  IF d # c THEN answered[d]
                  ELSE IF clash = {} THEN c
                  ELSE IF kept # {} THEN CHOOSE row \in kept : TRUE ELSE Nothing]

-------------------------------------------------------------------------------
ArchiveInit ==
    /\ upload \in [Uploads -> {[pc |-> "New", hash |-> h] : h \in Evidence}]
    /\ temporary = {} /\ named = {} /\ proofs = {}
    /\ registering = {} /\ challenges = {} /\ answered = [c \in {} |-> Nothing]
    /\ breaks = 0
ArchiveNext ==
    \/ /\ \E u \in Uploads : \/ OpenUpload(u) \/ UploadRejected(u) \/ LookUpProof(u)
                             \/ RenameClip(u) \/ PutProof(u) \/ UploadCrashes(u)
       /\ UNCHANGED <<registering, challenges, answered>>
    \/ /\ \E c \in References : LookUpChallenge(c) \/ PutChallenge(c)
       /\ UNCHANGED <<upload, temporary, named, proofs, breaks>>
ArchiveSpec == ArchiveInit /\ [][ArchiveNext]_archiveVars

-------------------------------------------------------------------------------
\* Properties.

\* Two resolvers inspect what the hash on chain names: a row always leads to its clip,
\* no two rows share a hash, and a request that was answered has its evidence archived.
ProofsHaveClips ==
    /\ \A row \in proofs : row.id \in named
    /\ \A a, b \in proofs : a.hash = b.hash => a = b
    /\ \A u \in Uploads : upload[u].pc = "Stored" => \E row \in proofs : row.hash = upload[u].hash

===============================================================================
