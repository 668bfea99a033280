-------------------------- MODULE MatchFilesProofs --------------------------
(***************************************************************************)
(* Theorems about module MatchFiles, for any matches, pushed any number of *)
(* times, any kinds of files, any number of collectors and of faults.      *)
(***************************************************************************)
EXTENDS MatchFiles, TLAPS

Steps == {"idle", "create", "write", "close", "rename", "report"}
Contents == (SUBSET Pieces) \cup {Absent}

(* TypeOK in parts: what collectors hold, the disk, and the rest.          *)
CollType ==
  /\ hand \in [Collectors -> Stamps \cup {NoOne}]
  /\ ver \in [Collectors -> Versions \cup {0}]
  /\ kind \in [Collectors -> DOMAIN Kinds]
  /\ step \in [Collectors -> Steps]
  /\ err \in [Collectors -> BOOLEAN]
DiskType ==
  /\ at \in [Collectors -> Places \cup {"none", "gone"}]
  /\ disk \in [Places -> [Files -> Contents]]
MiscType ==
  /\ queue \in Seq(Stamps \X Versions)
  /\ sent \in [Stamps -> Nat] /\ \A s \in Stamps : sent[s] <= Pushes[s]
  /\ sync \in [KindSet -> {"off", "sort", "upload", "remove"}]
  /\ stuck \in BOOLEAN /\ clash \in BOOLEAN
  /\ faults \in 0..MaxFaults
  /\ told \subseteq Files \X Versions /\ unheard \subseteq Files \X Versions
  /\ shown \in [Files -> Versions \cup {0}]
  /\ filed \in [Files -> Versions \cup {0}]

LEMMA TypeParts == TypeOK <=> CollType /\ DiskType /\ MiscType
BY DEF TypeOK, CollType, DiskType, MiscType, Steps, Contents

LEMMA KindsFacts ==
  /\ Len(Kinds) \in Nat \ {0} /\ DOMAIN Kinds = 1..Len(Kinds)
  /\ \A i \in DOMAIN Kinds : Kinds[i] \in KindSet
BY FilesAssumption DEF KindSet

(* A collector that is not idle holds a match and writes one of its files. *)
Held == \A c \in Collectors :
  /\ step[c] = "idle" <=> hand[c] = NoOne
  /\ step[c] # "idle" => ver[c] \in Versions
  /\ step[c] \in {"write", "close"} <=> at[c] # "none"
  /\ err[c] => step[c] \in {"close", "rename", "report"}

(* What a collector has open is there.                                     *)
OpenExists == \A c \in Collectors : at[c] \in Places => Exists(at[c], FileOf(c))

(* Without a clash collectors hold different matches, have only lock files *)
(* open, and find in them what they have written themselves.               *)
Apart == ~clash => \A c, d \in Collectors : c # d /\ hand[c] # NoOne => hand[c] # hand[d]

LockIs(c, x) == disk["lock"][FileOf(c)] = x
LockOK == ~clash => \A c \in Collectors :
  /\ step[c] = "write" => LockIs(c, {})
  /\ step[c] = "close" => err[c] \/ LockIs(c, {<<ver[c], "head">>})
  /\ step[c] = "rename" => err[c] \/ Update(c) \in unheard \/ LockIs(c, Whole(ver[c]))

(* What is removed from the bucket directory is in the store.              *)
RemoveOK == ~clash => \A f \in Files :
  sync[f[2]] = "remove" /\ Exists("bucket", f) => disk["store"][f] = disk["bucket"][f]

-----------------------------------------------------------------------------
(* Files and places.                                                       *)
LEMMA FileOfType ==
  ASSUME CollType, NEW c \in Collectors, hand[c] # NoOne PROVE FileOf(c) \in Files
BY KindsFacts DEF CollType, FileOf, Files

LEMMA FileParts ==
  /\ \A f \in Files : f[1] \in Stamps /\ f[2] \in KindSet
  /\ \A c \in Collectors : FileOf(c)[1] = hand[c] /\ FileOf(c)[2] = Kinds[kind[c]]
BY DEF Files, FileOf

LEMMA PlacesFacts ==
  /\ Shared \subseteq Places /\ "lock" \in Places /\ "lock" \notin Shared
  /\ "none" \notin Places /\ "gone" \notin Places
  /\ Places = {"lock", "log", "sync", "bucket", "store"}
BY DEF Places, Shared

LEMMA ContentsFacts ==
  /\ {} \in Contents /\ Absent \in Contents /\ {} # Absent
  /\ \A v \in Versions : Whole(v) \in Contents /\ Whole(v) # Absent
  /\ \A v \in Versions, x \in {"head", "tail"} : <<v, x>> \in Pieces /\ {<<v, x>>} # Absent
  /\ \A v : Whole(v) = {<<v, "head">>, <<v, "tail">>}
<1>1. \A v : Whole(v) = {<<v, "head">>, <<v, "tail">>}
  BY DEF Whole
<1>2. \A v \in Versions, x \in {"head", "tail"} : <<v, x>> \in Pieces
  BY DEF Pieces
<1>3. \A v, x : <<v, x>> \in Absent => x = "absent"
  BY DEF Absent
<1>4. \A v : Whole(v) # Absent /\ {<<v, "head">>} # Absent /\ {<<v, "tail">>} # Absent
  BY <1>1, <1>3
<1>5. {} # Absent
  BY DEF Absent
<1>6. \A v \in Versions : Whole(v) \in Contents
  BY <1>1, <1>2 DEF Contents
<1>7. {} \in Contents /\ Absent \in Contents
  <2>1. {} \in SUBSET Pieces
    OBVIOUS
  <2>2. QED BY <2>1, Zenon DEF Contents
<1>8. QED BY <1>1, <1>2, <1>4, <1>5, <1>6, <1>7

(* A rename moves files and touches no other place.                        *)
LEMMA RenameFacts ==
  ASSUME DiskType, NEW p \in Places, NEW q \in Places, p # q, NEW F \in SUBSET Files, Rename(p, q, F)
  PROVE  /\ DiskType'
         /\ \A f \in Files : /\ disk'[p][f] = IF f \in F THEN Absent ELSE disk[p][f]
                             /\ disk'[q][f] = IF f \in F THEN disk[p][f] ELSE disk[q][f]
         /\ \A r \in Places \ {p, q} : disk'[r] = disk[r]
         /\ \A c \in Collectors :
              /\ FileOf(c) \notin F \/ at[c] \notin {p, q} => at'[c] = at[c]
              /\ at'[c] = "none" <=> at[c] = "none"
<1>1. \A f \in Files : disk[p][f] \in Contents /\ disk[q][f] \in Contents
  BY DEF DiskType
<1> DEFINE P == [f \in Files |-> IF f \in F THEN Absent ELSE disk[p][f]]
           Q == [f \in Files |-> IF f \in F THEN disk[p][f] ELSE disk[q][f]]
<1>2. P \in [Files -> Contents] /\ Q \in [Files -> Contents]
  BY <1>1, ContentsFacts
<1>3. disk' = [disk EXCEPT ![p] = P, ![q] = Q]
  BY DEF Rename, DiskType
<1>4. disk' \in [Places -> [Files -> Contents]] /\ disk'[p] = P /\ disk'[q] = Q
      /\ \A r \in Places \ {p, q} : disk'[r] = disk[r]
  BY <1>2, <1>3 DEF DiskType
<1>5. at' \in [Collectors -> Places \cup {"none", "gone"}]
  BY DEF Rename, DiskType
<1>6. \A c \in Collectors :
         /\ FileOf(c) \notin F \/ at[c] \notin {p, q} => at'[c] = at[c]
         /\ at'[c] = "none" <=> at[c] = "none"
  BY PlacesFacts DEF Rename, DiskType
<1>7. QED BY <1>4, <1>5, <1>6 DEF DiskType

LEMMA PutFacts ==
  ASSUME DiskType, NEW p \in Places, NEW f \in Files, NEW x \in Contents, Put(p, f, x)
  PROVE  /\ disk' \in [Places -> [Files -> Contents]]
         /\ disk'[p][f] = x
         /\ \A g \in Files \ {f} : disk'[p][g] = disk[p][g]
         /\ \A r \in Places \ {p} : disk'[r] = disk[r]
BY DEF Put, DiskType

(* Copying from the bucket directory and deleting in it.                   *)
LEMMA CopyFacts ==
  ASSUME DiskType, NEW F \in SUBSET Files, Copy(F)
  PROVE  /\ disk' \in [Places -> [Files -> Contents]]
         /\ \A r \in Places \ {"store"} : disk'[r] = disk[r]
         /\ \A f \in Files : disk'["store"][f] = IF f \in F THEN disk["bucket"][f] ELSE disk["store"][f]
<1> DEFINE S == [f \in Files |-> IF f \in F THEN disk["bucket"][f] ELSE disk["store"][f]]
<1>1. disk' = [disk EXCEPT !["store"] = S]
  BY DEF Copy
<1>2. S \in [Files -> Contents]
  BY PlacesFacts DEF DiskType
<1>3. /\ disk' \in [Places -> [Files -> Contents]] /\ disk'["store"] = S
      /\ \A r \in Places \ {"store"} : disk'[r] = disk[r]
  BY <1>1, <1>2, PlacesFacts DEF DiskType
<1>4. QED BY <1>3

LEMMA DeleteFacts ==
  ASSUME DiskType, NEW F \in SUBSET Files, Delete(F)
  PROVE  /\ DiskType'
         /\ \A r \in Places \ {"bucket"} : disk'[r] = disk[r]
         /\ \A f \in Files : disk'["bucket"][f] = IF f \in F THEN Absent ELSE disk["bucket"][f]
         /\ \A c \in Collectors :
              at'[c] = IF at[c] = "bucket" /\ FileOf(c) \in F THEN "gone" ELSE at[c]
<1> DEFINE B == [f \in Files |-> IF f \in F THEN Absent ELSE disk["bucket"][f]]
<1>1. disk' = [disk EXCEPT !["bucket"] = B]
  BY PlacesFacts DEF Delete, DiskType
<1>2. B \in [Files -> Contents]
  BY PlacesFacts, ContentsFacts DEF DiskType
<1>3. /\ disk' \in [Places -> [Files -> Contents]] /\ disk'["bucket"] = B
      /\ \A r \in Places \ {"bucket"} : disk'[r] = disk[r]
  BY <1>1, <1>2, PlacesFacts DEF DiskType
<1>4. at' \in [Collectors -> Places \cup {"none", "gone"}]
      /\ \A c \in Collectors :
           at'[c] = IF at[c] = "bucket" /\ FileOf(c) \in F THEN "gone" ELSE at[c]
  BY DEF Delete, DiskType
<1>5. QED BY <1>3, <1>4 DEF DiskType

(* What a write does, given where the file is.                             *)
LEMMA WrittenFacts ==
  ASSUME CollType, DiskType, Held, OpenExists,
         NEW c \in Collectors, step[c] \in {"write", "close"},
         NEW x \in {"head", "tail"}, Written(c, x)
  PROVE  /\ disk' \in [Places -> [Files -> Contents]]
         /\ \A p \in Places, f \in Files : disk'[p][f] # Absent <=> disk[p][f] # Absent
         /\ at[c] = "lock" =>
              /\ \A r \in Places \ {"lock"} : disk'[r] = disk[r]
              /\ \A g \in Files \ {FileOf(c)} : disk'["lock"][g] = disk["lock"][g]
              /\ disk'["lock"][FileOf(c)] = disk["lock"][FileOf(c)] \cup {<<ver[c], x>>}
<1>1. hand[c] # NoOne /\ ver[c] \in Versions /\ at[c] # "none"
  BY DEF Held
<1>2. FileOf(c) \in Files
  BY <1>1, FileOfType
<1>3. CASE at[c] = "gone"
  BY <1>3, PlacesFacts DEF Written, DiskType
<1>4. CASE at[c] # "gone"
  <2> DEFINE old == disk[at[c]][FileOf(c)]
             new == old \cup {<<ver[c], x>>}
  <2>1. at[c] \in Places
    BY <1>1, <1>4 DEF DiskType
  <2>2. old \in SUBSET Pieces
    <3>1. old \in Contents
      BY <1>2, <2>1 DEF DiskType
    <3>2. old # Absent
      BY <2>1 DEF OpenExists, Exists
    <3>3. QED BY <3>1, <3>2, Zenon DEF Contents
  <2>3. <<ver[c], x>> \in Pieces
    BY <1>1, ContentsFacts
  <2>4. new \in Contents
    <3>1. new \in SUBSET Pieces
      BY <2>2, <2>3
    <3>2. QED BY <3>1, Zenon DEF Contents
  <2>5. new # Absent
    <3>1. <<ver[c], x>> \notin Absent
      BY DEF Absent
    <3>2. QED BY <3>1
  <2>6. old # Absent
    BY <2>1 DEF OpenExists, Exists
  <2>7. Put(at[c], FileOf(c), new)
    BY <1>4 DEF Written
  <2> HIDE DEF new
  <2>8. /\ disk' \in [Places -> [Files -> Contents]]
        /\ disk'[at[c]][FileOf(c)] = new
        /\ \A g \in Files \ {FileOf(c)} : disk'[at[c]][g] = disk[at[c]][g]
        /\ \A r \in Places \ {at[c]} : disk'[r] = disk[r]
    BY <1>2, <2>1, <2>4, <2>7, PutFacts
  <2>9. \A p \in Places, f \in Files : disk'[p][f] # Absent <=> disk[p][f] # Absent
    BY <2>5, <2>6, <2>8
  <2>10. QED BY <2>8, <2>9 DEF new
<1>5. QED BY <1>3, <1>4

-----------------------------------------------------------------------------
(* The inductive invariant.                                                *)
Types == CollType /\ DiskType /\ MiscType
Order == Held /\ OpenExists /\ Apart /\ LockOK /\ RemoveOK
IInv == Types /\ Order /\ OpenOnlyLocked /\ BrokenReported /\ NothingLost

LEMMA InitIInv == Init => IInv
<1> SUFFICES ASSUME Init PROVE IInv
  OBVIOUS
<1>1. CollType
  BY KindsFacts DEF Init, CollType, Steps
<1>2. DiskType
  BY ContentsFacts DEF Init, DiskType
<1>3. MiscType
  <2>1. sent \in [Stamps -> Nat] /\ \A s \in Stamps : sent[s] <= Pushes[s]
    BY FilesAssumption DEF Init
  <2>2. faults \in 0..MaxFaults
    BY FilesAssumption DEF Init
  <2>3. queue \in Seq(Stamps \X Versions)
    BY DEF Init
  <2>4. QED BY <2>1, <2>2, <2>3 DEF Init, MiscType
<1>4. Order
  BY PlacesFacts DEF Init, Order, Held, OpenExists, Apart, LockOK, RemoveOK, Exists
<1>5. OpenOnlyLocked /\ NothingLost
  BY DEF Init, OpenOnlyLocked, NothingLost
<1>6. BrokenReported
  BY PlacesFacts DEF Init, BrokenReported, Newest, Exists
<1>7. QED BY <1>1, <1>2, <1>3, <1>4, <1>5, <1>6 DEF IInv, Types

(* Types. Proceed ends with the match or goes on to its next file.         *)
LEMMA ProceedTypes ==
  ASSUME CollType, NEW c \in Collectors, hand[c] # NoOne, Proceed(c)
  PROVE  /\ hand' \in [Collectors -> Stamps \cup {NoOne}]
         /\ ver' \in [Collectors -> Versions \cup {0}]
         /\ kind' \in [Collectors -> DOMAIN Kinds]
         /\ step' \in [Collectors -> Steps]
<1>1. kind[c] # Len(Kinds) => kind[c] + 1 \in DOMAIN Kinds
  BY KindsFacts DEF CollType
<1>2. CASE kind[c] = Len(Kinds)
  BY <1>2, KindsFacts DEF Proceed, To, CollType, Steps
<1>3. CASE kind[c] # Len(Kinds)
  BY <1>1, <1>3 DEF Proceed, To, CollType, Steps
<1>4. QED BY <1>2, <1>3

LEMMA FailsType == ASSUME MiscType, Fails PROVE faults' \in 0..MaxFaults
BY FilesAssumption DEF MiscType, Fails

LEMMA CollectTypes ==
  ASSUME Types, Held, OpenExists, NEW c \in Collectors, Collect(c) \/ Trouble(c)
  PROVE  Types'
<1> USE DEF Types, cvars, svars, hvars
<1>0. step[c] # "idle" => FileOf(c) \in Files
  BY FileOfType DEF Held
<1>1. CASE Take(c)
  <2>1. Head(queue) \in Stamps \X Versions /\ Tail(queue) \in Seq(Stamps \X Versions)
    BY <1>1 DEF Take, MiscType
  <2>2. CollType'
    BY <1>1, <2>1, KindsFacts DEF Take, To, CollType, Steps
  <2>3. clash' \in BOOLEAN
    BY <1>1 DEF Take, MiscType
  <2>4. QED BY <1>1, <2>1, <2>2, <2>3 DEF Take, DiskType, MiscType
<1>2. CASE CreateFails(c) \/ WriteFails(c)
  <2>1. CollType'
    BY <1>2 DEF CreateFails, WriteFails, To, CollType, Steps
  <2>2. faults' \in 0..MaxFaults
    BY <1>2, FailsType DEF CreateFails, WriteFails
  <2>3. QED BY <1>2, <2>1, <2>2 DEF CreateFails, WriteFails, DiskType, MiscType
<1>3. CASE CloseFails(c)
  <2>1. CollType' /\ DiskType'
    BY <1>3 DEF CloseFails, To, CollType, DiskType, Steps
  <2>2. faults' \in 0..MaxFaults
    BY <1>3, FailsType DEF CloseFails
  <2>3. unheard' \subseteq Files \X Versions
    BY <1>0, <1>3 DEF CloseFails, MiscType, Held, Update
  <2>4. QED BY <1>3, <2>1, <2>2, <2>3 DEF CloseFails, MiscType
<1>4. CASE Report(c)
  <2>1. CollType'
    <3>1. hand[c] # NoOne
      BY <1>4 DEF Report, Held
    <3>2. QED BY <1>4, <3>1, ProceedTypes DEF Report, CollType
  <2>2. told' \subseteq Files \X Versions
    BY <1>0, <1>4 DEF Report, MiscType, Held, Update
  <2>3. QED BY <1>4, <2>1, <2>2 DEF Report, DiskType, MiscType
<1>5. CASE Create(c)
  <2>1. disk' \in [Places -> [Files -> Contents]]
    BY <1>0, <1>5, PutFacts, PlacesFacts, ContentsFacts DEF Create
  <2>2. DiskType'
    BY <1>5, <2>1, PlacesFacts DEF Create, DiskType
  <2>3. CollType'
    BY <1>5 DEF Create, To, CollType, Steps
  <2>4. QED BY <1>5, <2>2, <2>3 DEF Create, MiscType
<1>6. CASE Write(c) \/ Close(c)
  <2>1. disk' \in [Places -> [Files -> Contents]]
    BY <1>6, WrittenFacts DEF Write, Close
  <2>2. DiskType'
    BY <1>6, <2>1, PlacesFacts DEF Write, Close, DiskType
  <2>3. CollType'
    BY <1>6 DEF Write, Close, To, CollType, Steps
  <2>4. QED BY <1>6, <2>2, <2>3 DEF Write, Close, MiscType
<1>7. CASE Publish(c)
  <2>1. hand[c] # NoOne /\ ver[c] \in Versions /\ FileOf(c) \in Files
    BY <1>0, <1>7 DEF Publish, Held
  <2>2. DiskType'
    BY <1>7, PlacesFacts, RenameFacts DEF Publish, In
  <2>3. CollType'
    <3>1. CASE err[c]
      BY <1>7, <3>1 DEF Publish, To, CollType, Steps
    <3>2. CASE ~err[c]
      BY <1>7, <2>1, <3>2, ProceedTypes DEF Publish, CollType
    <3>3. QED BY <3>1, <3>2
  <2>4. filed' \in [Files -> Versions \cup {0}] /\ shown' \in [Files -> Versions \cup {0}]
    BY <1>7, <2>1 DEF Publish, MiscType
  <2>5. QED BY <1>7, <2>2, <2>3, <2>4 DEF Publish, MiscType
<1>8. QED BY <1>1, <1>2, <1>3, <1>4, <1>5, <1>6, <1>7 DEF Collect, Trouble

LEMMA RestTypes ==
  ASSUME Types, Held, NEW k \in KindSet,
         \/ \E s \in Stamps : Send(s)
         \/ Crash \/ Start \/ Syncing(k) \/ SyncTrouble(k) \/ SyncCrash \/ UNCHANGED vars
  PROVE  Types'
<1> USE DEF Types, cvars, svars, hvars
<1>1. ASSUME NEW s \in Stamps, Send(s) PROVE Types'
  <2>1. sent[s] + 1 \in 1..Pushes[s]
    <3>1. sent[s] \in Nat /\ Pushes[s] \in Nat
      BY FilesAssumption DEF MiscType
    <3>2. QED BY <1>1, <3>1 DEF Send
  <2>2. <<s, sent[s] + 1>> \in Stamps \X Versions
    BY <2>1 DEF Versions
  <2>3. queue' \in Seq(Stamps \X Versions)
    BY <1>1, <2>2 DEF Send, MiscType
  <2>4. sent' \in [Stamps -> Nat] /\ \A t \in Stamps : sent'[t] <= Pushes[t]
    BY <1>1, <2>1, FilesAssumption DEF Send, MiscType
  <2>5. QED BY <1>1, <2>3, <2>4 DEF Send, CollType, DiskType, MiscType
<1>2. CASE Crash
  <2>1. CollType' /\ DiskType'
    BY <1>2, KindsFacts, PlacesFacts DEF Crash, CollType, DiskType, Steps
  <2>2. unheard' \subseteq Files \X Versions
    <3>1. \A c \in Collectors : err[c] => Update(c) \in Files \X Versions
      BY FileOfType DEF Held, Update
    <3>2. QED BY <1>2, <3>1 DEF Crash, MiscType
  <2>3. queue' \in Seq(Stamps \X Versions)
    BY <1>2 DEF Crash
  <2>4. QED BY <1>2, <2>1, <2>2, <2>3, FailsType DEF Crash, MiscType
<1>3. CASE Start
  <2>1. DiskType'
    BY <1>3, PlacesFacts, RenameFacts DEF Start, In
  <2>2. QED BY <1>3, <2>1 DEF Start, CollType, MiscType
<1>f. (SyncTrouble(k) \/ SyncCrash) => faults' \in 0..MaxFaults
  BY FailsType DEF SyncTrouble, SortFails, UploadFails, RemoveFails, SyncCrash
<1>4. CASE Sort(k) \/ SortFails(k)
  <2>1. PICK F \in SUBSET Files : Rename("sync", "bucket", F)
    BY <1>4 DEF Sort, SortFails, In
  <2>2. DiskType'
    BY <2>1, PlacesFacts, RenameFacts
  <2>3. /\ sync' \in [KindSet -> {"off", "sort", "upload", "remove"}] /\ stuck' \in BOOLEAN
        /\ UNCHANGED <<queue, sent, hand, ver, kind, step, err, told, unheard, shown, filed, clash>>
        /\ faults' \in 0..MaxFaults
    BY <1>4, <1>f DEF Sort, SortFails, SyncTrouble, MiscType
  <2>4. QED BY <2>2, <2>3 DEF CollType, MiscType
<1>5. CASE Upload(k) \/ UploadFails(k)
  <2>1. PICK F \in SUBSET Files : Copy(F)
    BY <1>5 DEF Upload, UploadFails, In
  <2>2. disk' \in [Places -> [Files -> Contents]]
    BY <2>1, CopyFacts
  <2>3. /\ sync' \in [KindSet -> {"off", "sort", "upload", "remove"}] /\ stuck' \in BOOLEAN
        /\ UNCHANGED <<queue, sent, cvars, told, unheard, shown, filed, clash>>
        /\ faults' \in 0..MaxFaults
    BY <1>5, <1>f DEF Upload, UploadFails, SyncTrouble, MiscType
  <2>4. QED BY <2>2, <2>3 DEF CollType, DiskType, MiscType
<1>6. CASE Remove(k) \/ RemoveFails(k)
  <2>1. PICK F \in SUBSET Files : Delete(F)
    BY <1>6 DEF Remove, RemoveFails, In, OfKind
  <2>2. DiskType'
    BY <2>1, DeleteFacts
  <2>3. /\ sync' \in [KindSet -> {"off", "sort", "upload", "remove"}] /\ stuck' \in BOOLEAN
        /\ UNCHANGED <<queue, sent, hand, ver, kind, step, err, told, unheard, shown, filed, clash>>
        /\ faults' \in 0..MaxFaults
    BY <1>6, <1>f DEF Remove, RemoveFails, SyncTrouble, MiscType
  <2>4. QED BY <2>2, <2>3 DEF CollType, MiscType
<1>7. CASE SyncCrash
  <2>1. sync' \in [KindSet -> {"off", "sort", "upload", "remove"}] /\ stuck' \in BOOLEAN
    BY <1>7 DEF SyncCrash, MiscType
  <2>2. QED BY <1>7, <1>f, <2>1 DEF SyncCrash, CollType, DiskType, MiscType
<1>8. CASE UNCHANGED vars
  BY <1>8 DEF vars, CollType, DiskType, MiscType
<1>9. QED BY <1>1, <1>2, <1>3, <1>4, <1>5, <1>6, <1>7, <1>8 DEF Syncing, SyncTrouble

-----------------------------------------------------------------------------
(* Who holds what, and what is open. Other collectors are not touched by   *)
(* the steps of one, except that a rename may move what they have open.    *)
LEMMA HandsFacts ==
  ASSUME Types, NEW c \in Collectors, Collect(c) \/ Trouble(c)
  PROVE  /\ \A d \in Collectors \ {c} :
              /\ hand'[d] = hand[d] /\ ver'[d] = ver[d] /\ kind'[d] = kind[d]
              /\ step'[d] = step[d] /\ err'[d] = err[d] /\ FileOf(d)' = FileOf(d)
         /\ Take(c) \/ hand'[c] \in {hand[c], NoOne}
         /\ ~Publish(c) => \A d \in Collectors \ {c} : at'[d] = at[d]
<1> USE DEF Types, CollType, DiskType, FileOf, To, cvars, svars, hvars
<1>1. ASSUME Proceed(c)
      PROVE  /\ \A d \in Collectors \ {c} : hand'[d] = hand[d] /\ ver'[d] = ver[d]
                                            /\ kind'[d] = kind[d] /\ step'[d] = step[d]
             /\ hand'[c] \in {hand[c], NoOne}
  <2>1. CASE kind[c] = Len(Kinds)
    BY <1>1, <2>1 DEF Proceed
  <2>2. CASE kind[c] # Len(Kinds)
    BY <1>1, <2>2 DEF Proceed
  <2>3. QED BY <2>1, <2>2
<1>2. CASE Take(c)
  BY <1>2 DEF Take
<1>3. CASE Create(c) \/ CreateFails(c)
  BY <1>3 DEF Create, CreateFails
<1>4. CASE Write(c) \/ WriteFails(c)
  BY <1>4 DEF Write, WriteFails
<1>5. CASE Close(c) \/ CloseFails(c)
  BY <1>5 DEF Close, CloseFails
<1>6. CASE Publish(c)
  <2>1. CASE err[c]
    BY <1>6, <2>1 DEF Publish
  <2>2. CASE ~err[c]
    BY <1>1, <1>6, <2>2 DEF Publish
  <2>3. QED BY <2>1, <2>2
<1>7. CASE Report(c)
  BY <1>1, <1>7 DEF Report
<1>8. QED BY <1>2, <1>3, <1>4, <1>5, <1>6, <1>7 DEF Collect, Trouble

LEMMA ClashStays ==
  ASSUME Types, NEW c \in Collectors, Collect(c) \/ Trouble(c), clash PROVE clash'
BY DEF Collect, Trouble, Take, Create, Write, Close, Publish, Report, CreateFails, WriteFails,
       CloseFails, hvars

LEMMA CollectHeld ==
  ASSUME Types, Held, NEW c \in Collectors, Collect(c) \/ Trouble(c)
  PROVE  Held'
<1> DEFINE Holds(d) == /\ step[d] = "idle" <=> hand[d] = NoOne
                       /\ step[d] # "idle" => ver[d] \in Versions
                       /\ step[d] \in {"write", "close"} <=> at[d] # "none"
                       /\ err[d] => step[d] \in {"close", "rename", "report"}
<1>0. Holds(c)
  BY DEF Held
<1>1. \A d \in Collectors \ {c} : Holds(d)'
  <2>1. \A d \in Collectors \ {c} : at'[d] = "none" <=> at[d] = "none"
    <3>1. CASE Publish(c)
      <4>1. Rename("lock", "log", {FileOf(c)} \cap In("lock"))
        BY <3>1 DEF Publish
      <4>2. {FileOf(c)} \cap In("lock") \in SUBSET Files
        BY DEF In
      <4>3. QED BY <4>1, <4>2, RenameFacts, PlacesFacts DEF Types
    <3>2. CASE ~Publish(c)
      BY <3>2, HandsFacts
    <3>3. QED BY <3>1, <3>2
  <2>2. QED BY <2>1, HandsFacts DEF Held
<1>2. ASSUME Proceed(c), hand[c] # NoOne, ver[c] \in Versions
      PROVE  /\ step'[c] = "idle" <=> hand'[c] = NoOne
             /\ step'[c] # "idle" => ver'[c] \in Versions
             /\ step'[c] \in {"idle", "create"}
  <2>1. CASE kind[c] = Len(Kinds)
    BY <1>2, <2>1 DEF Proceed, To, Types, CollType
  <2>2. CASE kind[c] # Len(Kinds)
    BY <1>2, <2>2 DEF Proceed, To, Types, CollType
  <2>3. QED BY <2>1, <2>2
<1> USE DEF Types, CollType, DiskType, To, cvars
<1>3. CASE Take(c)
  <2>1. Head(queue) \in Stamps \X Versions
    BY <1>3 DEF Take, MiscType
  <2>2. Head(queue)[1] # NoOne
    BY <2>1, FilesAssumption
  <2>3. QED
    <3>1. Holds(c)'
      BY <1>0, <1>3, <2>1, <2>2 DEF Take
    <3>2. QED BY <1>1, <3>1 DEF Held
<1>4. CASE Create(c) \/ CreateFails(c)
  <2>1. Holds(c)'
    BY <1>0, <1>4 DEF Create, CreateFails
  <2>2. QED BY <1>1, <2>1 DEF Held
<1>5. CASE Write(c) \/ WriteFails(c)
  <2>1. Holds(c)'
    BY <1>0, <1>5 DEF Write, WriteFails
  <2>2. QED BY <1>1, <2>1 DEF Held
<1>6. CASE Close(c) \/ CloseFails(c)
  <2>1. Holds(c)'
    BY <1>0, <1>6 DEF Close, CloseFails
  <2>2. QED BY <1>1, <2>1 DEF Held
<1>7. CASE Publish(c)
  <2>1. at'[c] = "none"
    BY <1>0, <1>7, PlacesFacts DEF Publish, Rename
  <2>2. Holds(c)'
    <3>1. CASE err[c]
      BY <1>0, <1>7, <2>1, <3>1 DEF Publish
    <3>2. CASE ~err[c]
      BY <1>0, <1>2, <1>7, <2>1, <3>2 DEF Publish
    <3>3. QED BY <3>1, <3>2
  <2>3. QED BY <1>1, <2>2 DEF Held
<1>8. CASE Report(c)
  <2>1. Holds(c)'
    BY <1>0, <1>2, <1>8 DEF Report
  <2>2. QED BY <1>1, <2>1 DEF Held
<1>9. QED BY <1>3, <1>4, <1>5, <1>6, <1>7, <1>8 DEF Collect, Trouble

LEMMA CollectApart ==
  ASSUME Types, Apart, NEW c \in Collectors, Collect(c) \/ Trouble(c)
  PROVE  Apart'
<1>1. CASE Take(c)
  BY <1>1, HandsFacts DEF Take, Apart, Types, CollType
<1>2. CASE ~Take(c)
  <2>1. clash' = clash
    BY <1>2 DEF Collect, Trouble, Create, Write, Close, Publish, Report, CreateFails,
                WriteFails, CloseFails, hvars
  <2>2. QED BY <1>2, <2>1, HandsFacts DEF Apart
<1>3. QED BY <1>1, <1>2

(* A rename of files that exist takes along what is open, or unlinks it.   *)
LEMMA RenameOpen ==
  ASSUME Types, Held, OpenExists, NEW p \in Places, NEW q \in Places, p # q,
         NEW F \in SUBSET In(p), Rename(p, q, F),
         NEW d \in Collectors, at'[d] \in Places
  PROVE  disk'[at'[d]][FileOf(d)] # Absent
<1>1. F \in SUBSET Files
  BY DEF In
<1>2. at[d] \in Places
  BY PlacesFacts DEF Rename, Types, DiskType
<1>3. FileOf(d) \in Files /\ disk[at[d]][FileOf(d)] # Absent
  <2>1. hand[d] # NoOne
    BY <1>2, PlacesFacts DEF Held
  <2>2. QED BY <1>2, <2>1, FileOfType DEF Types, OpenExists, Exists
<1>4. CASE FileOf(d) \notin F
  <2>1. at'[d] = at[d]
    BY <1>1, <1>4, RenameFacts DEF Types
  <2>2. disk'[at[d]][FileOf(d)] = disk[at[d]][FileOf(d)]
    BY <1>1, <1>2, <1>3, <1>4, RenameFacts DEF Types
  <2>3. QED BY <1>3, <2>1, <2>2
<1>5. CASE FileOf(d) \in F
  <2>1. disk'[q][FileOf(d)] = disk[p][FileOf(d)] /\ disk[p][FileOf(d)] # Absent
    BY <1>1, <1>5, RenameFacts DEF Types, In, Exists
  <2>2. CASE at[d] = p
    BY <1>5, <2>1, <2>2 DEF Rename
  <2>3. CASE at[d] = q
    BY <1>5, <2>3, PlacesFacts DEF Rename
  <2>4. CASE at[d] \notin {p, q}
    <3>1. at'[d] = at[d]
      BY <1>1, <2>4, RenameFacts DEF Types
    <3>2. disk'[at[d]] = disk[at[d]]
      BY <1>1, <1>2, <2>4, RenameFacts DEF Types
    <3>3. QED BY <1>3, <3>1, <3>2
  <2>5. QED BY <2>2, <2>3, <2>4
<1>6. QED BY <1>4, <1>5

LEMMA CollectOpen ==
  ASSUME Types, Held, OpenExists, NEW c \in Collectors, Collect(c) \/ Trouble(c)
  PROVE  OpenExists'
<1> USE DEF Types, DiskType, CollType
<1>1. CASE Publish(c)
  <2>1. Rename("lock", "log", {FileOf(c)} \cap In("lock"))
    BY <1>1 DEF Publish
  <2>2. at[c] = "none" /\ at'[c] = "none"
    <3>1. at[c] = "none"
      BY <1>1 DEF Publish, Held
    <3>2. QED BY <2>1, <3>1, PlacesFacts DEF Rename
  <2>3. \A d \in Collectors : at'[d] \in Places => disk'[at'[d]][FileOf(d)] # Absent
    BY <2>1, RenameOpen, PlacesFacts
  <2>4. QED BY <1>1, <2>2, <2>3, HandsFacts, PlacesFacts DEF OpenExists, Exists
<1>2. CASE Create(c)
  <2>1. FileOf(c) \in Files /\ at[c] = "none"
    BY <1>2, FileOfType DEF Create, Held
  <2>2. disk'["lock"][FileOf(c)] = {}
    BY <1>2, <2>1, PutFacts, PlacesFacts, ContentsFacts DEF Create
  <2>3. \A p \in Places, f \in Files : disk[p][f] # Absent => disk'[p][f] # Absent
    BY <1>2, <2>1, PutFacts, PlacesFacts, ContentsFacts DEF Create
  <2>4. \A d \in Collectors \ {c} : at'[d] \in Places => disk'[at'[d]][FileOf(d)'] # Absent
    <3>1. \A d \in Collectors : at[d] \in Places => FileOf(d) \in Files
      BY FileOfType, PlacesFacts DEF Held
    <3>2. ~Publish(c)
      BY <1>2 DEF Create, Publish
    <3>3. QED BY <2>3, <3>1, <3>2, HandsFacts DEF OpenExists, Exists
  <2>5. at'[c] = "lock" /\ FileOf(c)' = FileOf(c)
    BY <1>2 DEF Create, FileOf
  <2>6. QED BY <2>2, <2>4, <2>5, ContentsFacts DEF OpenExists, Exists
<1>3. CASE Write(c) \/ Close(c)
  <2>1. \A p \in Places, f \in Files : disk'[p][f] # Absent <=> disk[p][f] # Absent
    BY <1>3, WrittenFacts DEF Write, Close
  <2>2. \A d \in Collectors : at[d] \in Places => FileOf(d) \in Files
    BY FileOfType, PlacesFacts DEF Held
  <2>3. \A d \in Collectors : FileOf(d)' = FileOf(d) /\ (at'[d] \in Places => at'[d] = at[d])
    BY <1>3, PlacesFacts DEF Write, Close, FileOf
  <2>4. QED BY <2>1, <2>2, <2>3 DEF OpenExists, Exists
<1>4. CASE ~Publish(c) /\ ~Create(c) /\ ~Write(c) /\ ~Close(c)
  <2>1. disk' = disk
    BY <1>4 DEF Collect, Trouble, Take, Report, CreateFails, WriteFails, CloseFails
  <2>2. \A d \in Collectors \ {c} : FileOf(d)' = FileOf(d) /\ at'[d] = at[d]
    BY <1>4, HandsFacts
  <2>3. at'[c] \in Places => FileOf(c)' = FileOf(c) /\ at'[c] = at[c]
    BY <1>4, PlacesFacts DEF Collect, Trouble, Take, Report, CreateFails, WriteFails, CloseFails, FileOf, Held
  <2>4. QED BY <2>1, <2>2, <2>3 DEF OpenExists, Exists
<1>5. QED BY <1>1, <1>2, <1>3, <1>4

LEMMA CollectLocked ==
  ASSUME Types, Held, Apart, OpenOnlyLocked, NEW c \in Collectors, Collect(c) \/ Trouble(c)
  PROVE  OpenOnlyLocked'
<1> SUFFICES ASSUME ~clash', NEW d \in Collectors PROVE at'[d] \in {"none", "lock"}
  BY DEF OpenOnlyLocked
<1> USE DEF Types, DiskType
<1>1. ~clash
  BY ClashStays
<1>2. at[d] \in {"none", "lock"}
  BY <1>1 DEF OpenOnlyLocked
<1>3. CASE Publish(c)
  <2>1. CASE FileOf(d) \in {FileOf(c)} \cap In("lock")
    <3>1. hand[d] = hand[c] /\ hand[c] # NoOne
      BY <1>3, <2>1, FileParts DEF Publish, Held
    <3>2. d = c
      BY <1>1, <3>1 DEF Apart
    <3>3. QED BY <1>3, <3>2, PlacesFacts DEF Publish, Held, Rename
  <2>2. CASE FileOf(d) \notin {FileOf(c)} \cap In("lock")
    BY <1>2, <1>3, <2>2 DEF Publish, Rename
  <2>3. QED BY <2>1, <2>2
<1>4. CASE ~Publish(c) /\ d # c
  BY <1>2, <1>4, HandsFacts
<1>5. CASE ~Publish(c) /\ d = c
  BY <1>2, <1>5 DEF Collect, Trouble, Take, Create, Write, Close, Report, CreateFails, WriteFails,
                    CloseFails, cvars
<1>6. QED BY <1>3, <1>4, <1>5

LEMMA CollectRemove ==
  ASSUME Types, Held, Apart, OpenExists, OpenOnlyLocked, RemoveOK,
         NEW c \in Collectors, Collect(c) \/ Trouble(c)
  PROVE  RemoveOK'
<1> SUFFICES ASSUME ~clash PROVE RemoveOK'
  BY ClashStays DEF RemoveOK
<1>1. sync' = sync
  BY DEF Collect, Trouble, Take, Create, Write, Close, Publish, Report, CreateFails, WriteFails,
         CloseFails, svars
<1>2. disk'["bucket"] = disk["bucket"] /\ disk'["store"] = disk["store"]
  <2>1. CASE Publish(c)
    <3>1. {FileOf(c)} \cap In("lock") \in SUBSET Files
      BY DEF In
    <3>2. QED BY <2>1, <3>1, RenameFacts, PlacesFacts DEF Publish, Types
  <2>2. CASE Create(c)
    <3>1. FileOf(c) \in Files
      BY <2>2, FileOfType DEF Create, Held, Types
    <3>2. QED BY <2>2, <3>1, PutFacts, PlacesFacts, ContentsFacts DEF Create, Types
  <2>3. CASE Write(c) \/ Close(c)
    <3>1. at[c] = "lock"
      BY <2>3 DEF Write, Close, Held, OpenOnlyLocked
    <3>2. QED BY <2>3, <3>1, WrittenFacts, PlacesFacts DEF Write, Close, Types
  <2>4. CASE ~Publish(c) /\ ~Create(c) /\ ~Write(c) /\ ~Close(c)
    BY <2>4 DEF Collect, Trouble, Take, Report, CreateFails, WriteFails, CloseFails
  <2>5. QED BY <2>1, <2>2, <2>3, <2>4
<1>3. QED BY <1>1, <1>2 DEF RemoveOK, Exists

(* The lock file of collector c, step by step; that of another stays as it *)
(* is.                                                                     *)
LEMMA CollectLock ==
  ASSUME Types, Held, Apart, OpenExists, OpenOnlyLocked, LockOK,
         NEW c \in Collectors, Collect(c) \/ Trouble(c)
  PROVE  LockOK'
<1> DEFINE Good(d) ==
      /\ step[d] = "write" => LockIs(d, {})
      /\ step[d] = "close" => err[d] \/ LockIs(d, {<<ver[d], "head">>})
      /\ step[d] = "rename" => err[d] \/ Update(d) \in unheard \/ LockIs(d, Whole(ver[d]))
<1> SUFFICES ASSUME ~clash, NEW d \in Collectors PROVE Good(d)'
  BY ClashStays DEF LockOK
<1>0. Good(c) /\ Good(d)
  BY DEF LockOK
<1>1. CASE d # c
  <2>1. CASE step[d] = "idle"
    BY <1>1, <2>1, HandsFacts
  <2>2. CASE step[d] # "idle"
    <3>1. hand[d] # NoOne /\ FileOf(d) \in Files
      BY <2>2, FileOfType DEF Held, Types
    <3>2. FileOf(c) # FileOf(d)
      BY <1>1, <3>1, FileParts DEF Apart
    <3>3. disk'["lock"][FileOf(d)] = disk["lock"][FileOf(d)]
      <4>1. CASE Publish(c)
        <5>1. {FileOf(c)} \cap In("lock") \in SUBSET Files
          BY DEF In
        <5>2. Rename("lock", "log", {FileOf(c)} \cap In("lock"))
          BY <4>1 DEF Publish
        <5>3. QED BY <3>1, <3>2, <5>1, <5>2, RenameFacts, PlacesFacts DEF Types
      <4>2. CASE Create(c)
        <5>1. FileOf(c) \in Files
          BY <4>2, FileOfType DEF Create, Held, Types
        <5>2. QED BY <3>1, <3>2, <4>2, <5>1, PutFacts, PlacesFacts, ContentsFacts DEF Create, Types
      <4>3. CASE Write(c) \/ Close(c)
        <5>1. at[c] = "lock"
          BY <4>3 DEF Write, Close, Held, OpenOnlyLocked
        <5>2. QED BY <3>1, <3>2, <4>3, <5>1, WrittenFacts, PlacesFacts DEF Write, Close, Types
      <4>4. CASE ~Publish(c) /\ ~Create(c) /\ ~Write(c) /\ ~Close(c)
        BY <4>4 DEF Collect, Trouble, Take, Report, CreateFails, WriteFails, CloseFails
      <4>5. QED BY <4>1, <4>2, <4>3, <4>4
    <3>4. unheard \subseteq unheard'
      BY DEF Collect, Trouble, Take, Create, Write, Close, Publish, Report, CreateFails, WriteFails,
             CloseFails, hvars
    <3>5. QED BY <1>0, <1>1, <3>3, <3>4, HandsFacts DEF LockIs, Update
  <2>3. QED BY <2>1, <2>2
<1>2. CASE d = c
  <2> USE DEF Types, CollType, To
  <2>1. CASE Create(c)
    <3>1. FileOf(c) \in Files /\ FileOf(c)' = FileOf(c)
      BY <2>1, FileOfType DEF Create, Held, FileOf
    <3>2. disk'["lock"][FileOf(c)] = {}
      BY <2>1, <3>1, PutFacts, PlacesFacts, ContentsFacts DEF Create
    <3>3. step'[c] = "write"
      BY <2>1 DEF Create
    <3>4. QED BY <1>2, <3>1, <3>2, <3>3 DEF LockIs
  <2>2. CASE Write(c)
    <3>1. at[c] = "lock" /\ FileOf(c)' = FileOf(c) /\ ver' = ver /\ step'[c] = "close"
      BY <2>2 DEF Write, Held, OpenOnlyLocked, FileOf
    <3>2. disk'["lock"][FileOf(c)] = disk["lock"][FileOf(c)] \cup {<<ver[c], "head">>}
      BY <2>2, <3>1, WrittenFacts DEF Write
    <3>3. disk["lock"][FileOf(c)] = {}
      BY <1>0, <2>2 DEF Write, LockIs
    <3>4. QED BY <1>2, <3>1, <3>2, <3>3 DEF LockIs
  <2>3. CASE Close(c)
    <3>1. at[c] = "lock" /\ FileOf(c)' = FileOf(c) /\ ver' = ver /\ err' = err /\ step'[c] = "rename"
      BY <2>3 DEF Close, Held, OpenOnlyLocked, FileOf
    <3>2. disk'["lock"][FileOf(c)] = disk["lock"][FileOf(c)] \cup {<<ver[c], "tail">>}
      BY <2>3, <3>1, WrittenFacts DEF Close
    <3>3. err[c] \/ disk["lock"][FileOf(c)] = {<<ver[c], "head">>}
      BY <1>0, <2>3 DEF Close, LockIs
    <3>4. err[c] \/ disk'["lock"][FileOf(c)] = Whole(ver[c])
      BY <3>2, <3>3, ContentsFacts
    <3>5. QED BY <1>2, <3>1, <3>4 DEF LockIs
  <2>4. CASE WriteFails(c)
    BY <1>2, <2>4 DEF WriteFails
  <2>5. CASE CloseFails(c)
    BY <1>2, <2>5 DEF CloseFails, FileOf, Update
  <2>6. CASE Take(c) \/ CreateFails(c)
    BY <1>2, <2>6 DEF Take, CreateFails
  <2>7. CASE Publish(c) \/ Report(c)
    <3>1. step'[c] \in {"report", "idle", "create"}
      BY <2>7 DEF Publish, Report, Proceed
    <3>2. QED BY <1>2, <3>1
  <2>8. QED BY <2>1, <2>2, <2>3, <2>4, <2>5, <2>6, <2>7 DEF Collect, Trouble
<1>3. QED BY <1>1, <1>2

-----------------------------------------------------------------------------
(* What the steps of a collector do to the places others look at: without  *)
(* a clash only a rename does anything.                                    *)
LEMMA SharedFacts ==
  ASSUME Types, Held, OpenExists, OpenOnlyLocked, ~clash,
         NEW c \in Collectors, Collect(c) \/ Trouble(c)
  PROVE  /\ ~Publish(c) => \A r \in Shared : disk'[r] = disk[r]
         /\ Publish(c) =>
              /\ FileOf(c) \in Files
              /\ \A r \in Shared \ {"log"} : disk'[r] = disk[r]
              /\ \A f \in Files \ {FileOf(c)} : disk'["log"][f] = disk["log"][f]
              /\ IF disk["lock"][FileOf(c)] = Absent
                 THEN disk'["log"][FileOf(c)] = disk["log"][FileOf(c)]
                 ELSE disk'["log"][FileOf(c)] = disk["lock"][FileOf(c)]
<1> USE DEF Types
<1>1. CASE Publish(c)
  <2> DEFINE F == {FileOf(c)} \cap In("lock")
  <2>1. FileOf(c) \in Files
    BY <1>1, FileOfType DEF Publish, Held
  <2>2. F \in SUBSET Files
    BY DEF In
  <2>3. Rename("lock", "log", F)
    BY <1>1 DEF Publish
  <2>4. FileOf(c) \in F <=> disk["lock"][FileOf(c)] # Absent
    BY <2>1 DEF In, Exists
  <2> HIDE DEF F
  <2>5. \A f \in Files : disk'["log"][f] = IF f \in F THEN disk["lock"][f] ELSE disk["log"][f]
    BY <2>2, <2>3, RenameFacts, PlacesFacts
  <2>6. \A f \in Files \ {FileOf(c)} : f \notin F
    BY DEF F
  <2>7. \A r \in Shared \ {"log"} : disk'[r] = disk[r]
    BY <2>2, <2>3, RenameFacts, PlacesFacts
  <2>8. ~(~Publish(c))
    BY <1>1
  <2>9. QED BY <2>1, <2>4, <2>5, <2>6, <2>7, <2>8
<1>2. CASE Create(c)
  <2>1. FileOf(c) \in Files
    BY <1>2, FileOfType DEF Create, Held
  <2>2. \A r \in Shared : disk'[r] = disk[r]
    BY <1>2, <2>1, PutFacts, PlacesFacts, ContentsFacts DEF Create
  <2>3. ~Publish(c)
    BY <1>2 DEF Create, Publish
  <2>4. QED BY <2>2, <2>3
<1>3. CASE Write(c) \/ Close(c)
  <2>1. at[c] = "lock"
    BY <1>3 DEF Write, Close, Held, OpenOnlyLocked
  <2>2. \A r \in Shared : disk'[r] = disk[r]
    BY <1>3, <2>1, WrittenFacts, PlacesFacts DEF Write, Close
  <2>3. ~Publish(c)
    BY <1>3 DEF Write, Close, Publish
  <2>4. QED BY <2>2, <2>3
<1>4. CASE ~Publish(c) /\ ~Create(c) /\ ~Write(c) /\ ~Close(c)
  BY <1>4 DEF Collect, Trouble, Take, Report, CreateFails, WriteFails, CloseFails
<1>5. QED BY <1>1, <1>2, <1>3, <1>4

LEMMA CollectBroken ==
  ASSUME Types, Held, Apart, OpenExists, OpenOnlyLocked, LockOK, BrokenReported,
         NEW c \in Collectors, Collect(c) \/ Trouble(c)
  PROVE  BrokenReported'
<1> SUFFICES ASSUME ~clash, NEW f \in Files
             PROVE  \/ Newest(f)' \in {Absent} \cup {Whole(v) : v \in Versions}
                    \/ <<f, shown'[f]>> \in told' \cup unheard'
                    \/ \E e \in Collectors : err'[e] /\ Update(e)' = <<f, shown'[f]>>
  BY ClashStays DEF BrokenReported
<1>1. \/ Newest(f) \in {Absent} \cup {Whole(v) : v \in Versions}
      \/ <<f, shown[f]>> \in told \cup unheard
      \/ \E e \in Collectors : err[e] /\ Update(e) = <<f, shown[f]>>
  BY DEF BrokenReported
<1>2. told \subseteq told' /\ unheard \subseteq unheard'
  BY DEF Collect, Trouble, Take, Create, Write, Close, Publish, Report, CreateFails, WriteFails,
         CloseFails, hvars
<1>3. \A e \in Collectors :
        err[e] => (err'[e] /\ Update(e)' = Update(e)) \/ Update(e) \in told'
  <2>1. CASE Report(c)
    <3>1. Update(c) \in told'
      BY <2>1 DEF Report
    <3>2. QED BY <3>1, HandsFacts DEF Update
  <2>2. CASE ~Report(c)
    <3>1. ASSUME err[c] PROVE err'[c] /\ hand'[c] = hand[c] /\ ver'[c] = ver[c] /\ kind'[c] = kind[c]
      BY <2>2, <3>1 DEF Collect, Trouble, Take, Create, Write, Close, Publish, CreateFails,
             WriteFails, CloseFails, cvars, Types, CollType, Held, To
    <3>2. QED BY <3>1, HandsFacts DEF Update, FileOf
  <2>3. QED BY <2>1, <2>2
<1>4. CASE ~Publish(c) \/ f # FileOf(c)
  <2>1. shown'[f] = shown[f]
    BY <1>4 DEF Collect, Trouble, Take, Create, Write, Close, Publish, Report, CreateFails, WriteFails,
           CloseFails, hvars, Types, MiscType
  <2>2. \A r \in Shared : disk'[r][f] = disk[r][f]
    BY <1>4, SharedFacts
  <2>3. Newest(f)' = Newest(f)
    BY <2>2 DEF Newest, Exists, Shared
  <2>4. QED BY <1>1, <1>2, <1>3, <2>1, <2>3
<1>5. CASE Publish(c) /\ f = FileOf(c)
  <2>1. ver[c] \in Versions /\ shown'[f] = ver[c] /\ Update(c) = <<f, shown'[f]>>
    BY <1>5 DEF Publish, Held, Update, Types, MiscType
  <2>2. CASE err[c]
    BY <1>2, <1>3, <2>1, <2>2
  <2>3. CASE Update(c) \in unheard
    BY <1>2, <2>1, <2>3
  <2>4. CASE disk["lock"][f] = Whole(ver[c])
    <3>1. disk["lock"][f] # Absent
      BY <2>1, <2>4, ContentsFacts
    <3>2. disk'["log"][f] = Whole(ver[c])
      BY <1>5, <2>4, <3>1, SharedFacts
    <3>3. Newest(f)' = Whole(ver[c])
      BY <2>4, <3>1, <3>2 DEF Newest, Exists
    <3>4. QED BY <2>1, <3>3
  <2>5. QED BY <1>5, <2>2, <2>3, <2>4 DEF Publish, LockOK, LockIs
<1>6. QED BY <1>4, <1>5

LEMMA CollectLost ==
  ASSUME Types, Held, Apart, OpenExists, OpenOnlyLocked, NothingLost,
         NEW c \in Collectors, Collect(c) \/ Trouble(c)
  PROVE  NothingLost'
<1> SUFFICES ASSUME ~clash, NEW f \in Files, filed'[f] # 0
             PROVE  Newest(f)' = Whole(filed'[f])
  BY ClashStays DEF NothingLost
<1>1. CASE ~Publish(c)
  <2>1. filed' = filed
    BY <1>1 DEF Collect, Trouble, Take, Create, Write, Close, Report, CreateFails, WriteFails,
                CloseFails, hvars
  <2>2. \A r \in Shared : disk'[r] = disk[r]
    BY <1>1, SharedFacts
  <2>3. QED BY <2>1, <2>2 DEF NothingLost, Newest, Exists, Shared
<1>2. CASE Publish(c) /\ f # FileOf(c)
  <2>1. filed'[f] = filed[f]
    BY <1>2 DEF Publish, Types, MiscType
  <2>2. \A r \in Shared : disk'[r][f] = disk[r][f]
    BY <1>2, SharedFacts
  <2>3. QED BY <2>1, <2>2 DEF NothingLost, Newest, Exists, Shared
<1>3. CASE Publish(c) /\ f = FileOf(c)
  <2>1. disk["lock"][f] = Whole(ver[c]) /\ filed'[f] = ver[c] /\ ver[c] \in Versions
    BY <1>3 DEF Publish, Types, MiscType, Held
  <2>2. disk["lock"][f] # Absent
    BY <2>1, ContentsFacts
  <2>3. disk'["log"][f] = Whole(ver[c])
    BY <1>3, <2>1, <2>2, SharedFacts
  <2>4. QED BY <2>1, <2>2, <2>3 DEF Newest, Exists
<1>4. QED BY <1>1, <1>2, <1>3

-----------------------------------------------------------------------------
(* The steps of the script that move files; nobody has open what they      *)
(* move, unless there was a clash.                                         *)
Moves(p, q, F) ==
  /\ p \in Shared /\ q \in Shared /\ p # q /\ F \subseteq In(p)
  /\ Rename(p, q, F)
  /\ UNCHANGED <<hand, ver, kind, step, err, told, unheard, shown, filed, clash>>

LEMMA MovesKeep ==
  ASSUME Types, Order, OpenOnlyLocked,
         NEW p \in Shared, NEW q \in Shared, NEW F \in SUBSET In(p), Moves(p, q, F)
  PROVE  Held' /\ OpenExists' /\ Apart' /\ LockOK' /\ OpenOnlyLocked'
<1> USE DEF Types, Order, Moves
<1>0. /\ p \in Places /\ q \in Places /\ p # "lock" /\ q # "lock"
      /\ F \in SUBSET Files /\ Rename(p, q, F) /\ p # q
  BY PlacesFacts DEF In
<1>1. \A c \in Collectors : FileOf(c)' = FileOf(c)
  BY DEF FileOf
<1>2. \A c \in Collectors : at'[c] = "none" <=> at[c] = "none"
  BY <1>0, RenameFacts
<1>3. Held' /\ Apart'
  BY <1>2 DEF Held, Apart
<1>4. OpenExists'
  BY <1>0, <1>1, RenameOpen DEF OpenExists, Exists
<1>5. LockOK'
  <2>1. disk'["lock"] = disk["lock"]
    BY <1>0, RenameFacts, PlacesFacts
  <2>2. QED BY <1>1, <2>1 DEF LockOK, LockIs, Update
<1>6. OpenOnlyLocked'
  <2> SUFFICES ASSUME ~clash, NEW c \in Collectors PROVE at'[c] \in {"none", "lock"}
    BY DEF OpenOnlyLocked
  <2>1. at[c] \in {"none", "lock"} /\ at[c] \notin {p, q}
    BY <1>0, PlacesFacts DEF OpenOnlyLocked
  <2>2. QED BY <1>0, <2>1, RenameFacts
<1>7. QED BY <1>3, <1>4, <1>5, <1>6

(* Where the newest copy of every file stays what it is, so do the         *)
(* properties about it.                                                    *)
LEMMA NewestKeeps ==
  ASSUME BrokenReported, NothingLost, ~clash => \A f \in Files : Newest(f)' = Newest(f),
         UNCHANGED <<hand, ver, kind, err, told, unheard, shown, filed, clash>>
  PROVE  BrokenReported' /\ NothingLost'
<1>1. \A c \in Collectors : Update(c)' = Update(c)
  BY DEF Update, FileOf
<1>2. NothingLost'
  BY DEF NothingLost
<1>3. BrokenReported'
  BY <1>1 DEF BrokenReported
<1>4. QED BY <1>2, <1>3

LEMMA SortKeeps ==
  ASSUME IInv, NEW k \in KindSet, Start \/ Sort(k) \/ SortFails(k)
  PROVE  Order' /\ OpenOnlyLocked' /\ BrokenReported' /\ NothingLost'
<1> USE DEF IInv, Types, Order
<1>1. CASE Start
  <2>1. Moves("log", "sync", In("log"))
    BY <1>1 DEF Start, Moves, Shared, hvars
  <2>2. Held' /\ OpenExists' /\ Apart' /\ LockOK' /\ OpenOnlyLocked'
    BY <2>1, MovesKeep DEF Shared
  <2>3. /\ \A f \in Files : /\ disk'["log"][f] = Absent
                            /\ disk'["sync"][f] = IF disk["log"][f] # Absent THEN disk["log"][f] ELSE disk["sync"][f]
        /\ disk'["bucket"] = disk["bucket"] /\ disk'["store"] = disk["store"]
    <3>1. In("log") \in SUBSET Files /\ \A f \in Files : f \in In("log") <=> disk["log"][f] # Absent
      BY DEF In, Exists
    <3>2. QED BY <1>1, <3>1, RenameFacts, PlacesFacts DEF Start
  <2>4. \A f \in Files : Newest(f)' = Newest(f)
    BY <2>3 DEF Newest, Exists
  <2>5. BrokenReported' /\ NothingLost'
    BY <2>1, <2>4, NewestKeeps DEF Moves
  <2>6. RemoveOK'
    BY <1>1, FileParts DEF Start, RemoveOK, MiscType
  <2>7. QED BY <2>2, <2>5, <2>6
<1>2. CASE Sort(k) \/ SortFails(k)
  <2>1. PICK F \in SUBSET (In("sync") \cap OfKind(k)) : Rename("sync", "bucket", F)
    BY <1>2 DEF Sort, SortFails
  <2>2. Moves("sync", "bucket", F)
    BY <1>2, <2>1 DEF Sort, SortFails, Moves, Shared, hvars
  <2>3. Held' /\ OpenExists' /\ Apart' /\ LockOK' /\ OpenOnlyLocked'
    BY <2>2, MovesKeep DEF Shared
  <2>4. /\ \A f \in Files :
             IF f \in F
             THEN disk["sync"][f] # Absent /\ disk'["sync"][f] = Absent /\ disk'["bucket"][f] = disk["sync"][f]
             ELSE disk'["sync"][f] = disk["sync"][f] /\ disk'["bucket"][f] = disk["bucket"][f]
        /\ disk'["log"] = disk["log"] /\ disk'["store"] = disk["store"]
    <3>1. F \in SUBSET Files /\ \A f \in Files : f \in F => disk["sync"][f] # Absent
      BY DEF In, Exists
    <3>2. QED BY <2>1, <3>1, RenameFacts, PlacesFacts
  <2>5. \A f \in F : f[2] = k
    BY DEF OfKind
  <2>6. \A f \in Files : sync'[f[2]] = "remove" => sync[f[2]] = "remove" /\ f[2] # k
    BY <1>2, FileParts DEF Sort, SortFails, MiscType
  <2>7. \A f \in Files : Newest(f)' = Newest(f)
    <3>1. \A f \in Files : disk["log"][f] = Absent => Newest(f)' = Newest(f)
      BY <2>4, ContentsFacts DEF Newest, Exists
    <3>2. \A f \in Files : disk["log"][f] # Absent => Newest(f)' = Newest(f)
      BY <2>4 DEF Newest, Exists
    <3>3. QED BY <3>1, <3>2
  <2>8. BrokenReported' /\ NothingLost'
    BY <2>2, <2>7, NewestKeeps DEF Moves
  <2>9. RemoveOK'
    BY <2>2, <2>4, <2>5, <2>6 DEF RemoveOK, Exists, Moves
  <2>10. QED BY <2>3, <2>8, <2>9
<1>3. QED BY <1>1, <1>2

LEMMA UploadKeeps ==
  ASSUME IInv, NEW k \in KindSet, Upload(k) \/ UploadFails(k)
  PROVE  Order' /\ OpenOnlyLocked' /\ BrokenReported' /\ NothingLost'
<1> USE DEF IInv, Types, Order
<1>1. PICK F \in SUBSET (In("bucket") \cap OfKind(k)) :
        Copy(F) /\ (Upload(k) => F = In("bucket") \cap OfKind(k))
  BY DEF Upload, UploadFails
<1>2. UNCHANGED <<cvars, told, unheard, shown, filed, clash>>
  BY DEF Upload, UploadFails, hvars
<1>3. /\ \A r \in Places \ {"store"} : disk'[r] = disk[r]
      /\ \A f \in Files : IF f \in F
                          THEN disk'["store"][f] = disk["bucket"][f] /\ disk["bucket"][f] # Absent
                          ELSE disk'["store"][f] = disk["store"][f]
  <2>1. F \in SUBSET Files /\ \A f \in F : disk["bucket"][f] # Absent
    BY DEF In, Exists
  <2>2. QED BY <1>1, <2>1, CopyFacts
<1>4. \A c \in Collectors : FileOf(c)' = FileOf(c) /\ Update(c)' = Update(c)
  BY <1>2 DEF FileOf, Update, cvars
<1>5. Held' /\ Apart' /\ OpenOnlyLocked'
  BY <1>2 DEF Held, Apart, OpenOnlyLocked, cvars
<1>6. LockOK'
  BY <1>2, <1>3, <1>4, PlacesFacts DEF LockOK, LockIs, cvars
<1>7. OpenExists'
  <2>1. \A c \in Collectors : at[c] \in Places => FileOf(c) \in Files
    BY FileOfType, PlacesFacts DEF Held
  <2>2. \A p \in Places, f \in Files : disk[p][f] # Absent => disk'[p][f] # Absent
    BY <1>3
  <2>3. QED BY <1>2, <1>4, <2>1, <2>2 DEF OpenExists, Exists, cvars
<1>8. RemoveOK'
  <2>1. \A f \in Files :
          sync'[f[2]] = "remove" => (f[2] = k /\ Upload(k)) \/ (f[2] # k /\ sync[f[2]] = "remove")
    BY FileParts DEF Upload, UploadFails, MiscType
  <2>2. Upload(k) => \A f \in Files : f[2] = k /\ disk["bucket"][f] # Absent => f \in F
    BY <1>1 DEF In, OfKind, Exists
  <2>3. \A f \in F : f[2] = k
    BY DEF OfKind
  <2>4. QED BY <1>2, <1>3, <2>1, <2>2, <2>3, PlacesFacts DEF RemoveOK, Exists
<1>9. \A f \in Files : Newest(f)' = Newest(f)
  BY <1>3, PlacesFacts DEF Newest, Exists
<1>10. BrokenReported' /\ NothingLost'
  BY <1>2, <1>9, NewestKeeps DEF cvars
<1>11. QED BY <1>5, <1>6, <1>7, <1>8, <1>10

LEMMA RemoveKeeps ==
  ASSUME IInv, NEW k \in KindSet, Remove(k) \/ RemoveFails(k)
  PROVE  Order' /\ OpenOnlyLocked' /\ BrokenReported' /\ NothingLost'
<1> USE DEF IInv, Types, Order
<1>0. PICK F \in SUBSET (Files \cap OfKind(k)) : Delete(F)
  <2>1. In("bucket") \subseteq Files /\ OfKind(k) \subseteq Files
    BY DEF In, OfKind
  <2>2. QED BY <2>1 DEF Remove, RemoveFails
<1>1. /\ \A r \in Places \ {"bucket"} : disk'[r] = disk[r]
      /\ \A f \in Files : disk'["bucket"][f] = IF f \in F THEN Absent ELSE disk["bucket"][f]
      /\ \A c \in Collectors :
           at'[c] = IF at[c] = "bucket" /\ FileOf(c) \in F THEN "gone" ELSE at[c]
  BY <1>0, DeleteFacts
<1>2. UNCHANGED <<hand, ver, kind, step, err, told, unheard, shown, filed, clash>>
  BY DEF Remove, RemoveFails, hvars
<1>3. \A c \in Collectors : FileOf(c)' = FileOf(c) /\ Update(c)' = Update(c)
  BY <1>2 DEF FileOf, Update
<1>4. Held' /\ Apart'
  BY <1>1, <1>2 DEF Held, Apart
<1>5. OpenOnlyLocked'
  BY <1>1, <1>2 DEF OpenOnlyLocked
<1>6. LockOK'
  BY <1>1, <1>2, <1>3, PlacesFacts DEF LockOK, LockIs
<1>7. OpenExists'
  <2>1. \A c \in Collectors : at'[c] \in Places => at'[c] = at[c] /\ FileOf(c) \in Files
    BY <1>1, FileOfType, PlacesFacts DEF Held
  <2>2. \A c \in Collectors : at'[c] \in Places => disk'[at'[c]][FileOf(c)] = disk[at[c]][FileOf(c)]
    BY <1>1, <2>1, PlacesFacts
  <2>3. QED BY <1>3, <2>1, <2>2 DEF OpenExists, Exists
<1>8. RemoveOK'
  <2>1. \A f \in Files : sync'[f[2]] = "remove" => f[2] # k /\ sync[f[2]] = "remove"
    BY FileParts DEF Remove, RemoveFails, MiscType
  <2>2. QED BY <1>1, <1>2, <2>1, PlacesFacts DEF RemoveOK, Exists
<1>9. ~clash => \A f \in Files : Newest(f)' = Newest(f)
  <2> SUFFICES ASSUME ~clash, NEW f \in Files PROVE Newest(f)' = Newest(f)
    OBVIOUS
  <2>1. CASE f \in F /\ disk["bucket"][f] # Absent
    <3>1. sync[f[2]] = "remove"
      BY <2>1 DEF Remove, RemoveFails, OfKind
    <3>2. QED BY <1>1, <2>1, <3>1, PlacesFacts DEF RemoveOK, Newest, Exists
  <2>2. CASE f \notin F \/ disk["bucket"][f] = Absent
    <3>1. \A r \in Places : disk'[r][f] = disk[r][f]
      BY <1>1, <2>2
    <3>2. QED BY <3>1, PlacesFacts DEF Newest, Exists
  <2>3. QED BY <2>1, <2>2
<1>10. BrokenReported' /\ NothingLost'
  BY <1>2, <1>9, NewestKeeps
<1>11. QED BY <1>4, <1>5, <1>6, <1>7, <1>8, <1>10

LEMMA RestKeeps ==
  ASSUME IInv, (\E s \in Stamps : Send(s)) \/ Crash \/ SyncCrash \/ UNCHANGED vars
  PROVE  Order' /\ OpenOnlyLocked' /\ BrokenReported' /\ NothingLost'
<1> USE DEF IInv, Types, Order
<1>1. /\ disk' = disk /\ unheard \subseteq unheard'
      /\ UNCHANGED <<clash, filed, shown, told>>
  BY DEF Send, Crash, SyncCrash, vars, hvars
<1>2. NothingLost'
  BY <1>1 DEF NothingLost, Newest, Exists
<1>3. RemoveOK'
  <2>1. \A f \in Files : sync'[f[2]] = "remove" => sync[f[2]] = "remove"
    BY FileParts DEF Send, Crash, SyncCrash, vars, svars, MiscType
  <2>2. QED BY <1>1, <2>1 DEF RemoveOK, Exists
<1>4. CASE Crash
  <2>1. Held'
    BY <1>4 DEF Crash, Held
  <2>2. OpenExists' /\ OpenOnlyLocked' /\ Apart' /\ LockOK'
    BY <1>4, PlacesFacts DEF Crash, OpenExists, OpenOnlyLocked, Apart, LockOK
  <2>3. \A e \in Collectors : err[e] => Update(e) \in unheard'
    BY <1>4 DEF Crash
  <2>4. BrokenReported'
    <3>1. \A f \in Files : Newest(f)' = Newest(f)
      BY <1>1 DEF Newest, Exists
    <3>2. QED BY <1>1, <2>3, <3>1 DEF BrokenReported
  <2>5. QED BY <1>2, <1>3, <2>1, <2>2, <2>4
<1>5. CASE ~Crash
  <2>1. UNCHANGED cvars /\ unheard' = unheard
    BY <1>5 DEF Send, SyncCrash, vars, hvars
  <2>2. \A c \in Collectors : FileOf(c)' = FileOf(c) /\ Update(c)' = Update(c)
    BY <2>1 DEF FileOf, Update, cvars
  <2>3. Held' /\ Apart' /\ OpenOnlyLocked'
    BY <1>1, <2>1 DEF cvars, Held, Apart, OpenOnlyLocked
  <2>4. OpenExists' /\ LockOK'
    BY <1>1, <2>1, <2>2 DEF cvars, OpenExists, Exists, LockOK, LockIs
  <2>5. BrokenReported'
    <3>1. \A f \in Files : Newest(f)' = Newest(f)
      BY <1>1 DEF Newest, Exists
    <3>2. QED BY <1>1, <2>1, <3>1, NewestKeeps DEF cvars
  <2>6. QED BY <1>2, <1>3, <2>3, <2>4, <2>5
<1>6. QED BY <1>4, <1>5

LEMMA NextIInv == IInv /\ [Next]_vars => IInv'
<1> SUFFICES ASSUME IInv, [Next]_vars PROVE IInv'
  OBVIOUS
<1>1. ASSUME NEW c \in Collectors, Collect(c) \/ Trouble(c) PROVE IInv'
  BY <1>1, CollectTypes, CollectHeld, CollectOpen, CollectApart, CollectLock, CollectRemove,
     CollectLocked, CollectBroken, CollectLost DEF IInv, Order
<1>2. ASSUME NEW k \in KindSet, Start \/ Syncing(k) \/ SyncTrouble(k) PROVE IInv'
  BY <1>2, RestTypes, SortKeeps, UploadKeeps, RemoveKeeps DEF IInv, Order, Syncing, SyncTrouble
<1>3. \E k \in KindSet : TRUE
  BY KindsFacts
<1>4. ASSUME (\E s \in Stamps : Send(s)) \/ Crash \/ SyncCrash \/ UNCHANGED vars PROVE IInv'
  BY <1>3, <1>4, RestTypes, RestKeeps DEF IInv, Order
<1>5. QED BY <1>1, <1>2, <1>3, <1>4 DEF Next, Ended

LEMMA Invariant == Spec => []IInv
BY InitIInv, NextIInv, PTL DEF Spec

-----------------------------------------------------------------------------
(* Theorems.                                                               *)

(* Every reachable state is well typed; in particular a collector always   *)
(* writes one of the kinds there are (collect.go:62-77).                   *)
THEOREM TypeCorrect == Spec => []TypeOK
<1>1. IInv => TypeOK
  BY TypeParts DEF IInv, Types
<1>2. QED BY <1>1, Invariant, PTL

(* Only lock files are open for writing (collect.go:85-94).                *)
THEOREM WrittenUnderLock == Spec => []OpenOnlyLocked
<1>1. IInv => OpenOnlyLocked
  BY DEF IInv
<1>2. QED BY <1>1, Invariant, PTL

(* No broken file becomes the newest others can see without a call of      *)
(* Cancel(ErrLobbyBad) on account of that very update, or one about to be  *)
(* made; failing closes and kills are the exceptions                       *)
(* (collect.go:67-76, 90-100).                                             *)
THEOREM BrokenIsReported == Spec => []BrokenReported
<1>1. IInv => BrokenReported
  BY DEF IInv
<1>2. QED BY <1>1, Invariant, PTL

(* Whatever fails or is killed, the newest copy of a file that was written *)
(* well is somewhere on the way to the store (collect.go, sync.sh).        *)
THEOREM FilesAreKept == Spec => []NothingLost
<1>1. IInv => NothingLost
  BY DEF IInv
<1>2. QED BY <1>1, Invariant, PTL

-----------------------------------------------------------------------------
(* The final update.                                                       *)

(* As long as nothing fails and no two collectors meet on a name: updates  *)
(* of a match are taken in the order they were pushed in, and the last one *)
(* is in the channel, or in the hands of a collector and the only one      *)
(* left, or has been written to all files.                                 *)
Smooth == faults = 0 /\ ~clash

Queued(s, v) == \E i \in DOMAIN queue : queue[i] = <<s, v>>
Waits(s) == \E i \in DOMAIN queue : queue[i][1] = s
Worked(s) == \E c \in Collectors : hand[c] = s

InOrder ==
  /\ \A i \in DOMAIN queue : queue[i][2] <= sent[queue[i][1]]
  /\ \A i, j \in DOMAIN queue : i < j /\ queue[i][1] = queue[j][1] => queue[i][2] < queue[j][2]

LastOne(s) ==
  \/ sent[s] = 0
  \/ Queued(s, sent[s])
  \/ ~Waits(s) /\ \E c \in Collectors : hand[c] = s /\ ver[c] = sent[s]
  \/ ~Waits(s) /\ ~Worked(s) /\ \A k \in KindSet : filed[<<s, k>>] = sent[s]

(* What a collector has behind it is written, and well.                    *)
Progress == \A c \in Collectors :
  /\ ~err[c] /\ step[c] # "report"
  /\ hand[c] # NoOne => \A i \in 1..(kind[c] - 1) : filed[<<hand[c], Kinds[i]>>] = ver[c]

FinalInv ==
  Smooth => InOrder /\ (\A s \in Stamps : LastOne(s)) /\ Progress /\ unheard = {}

LEMMA SomeKind == \E k \in KindSet : TRUE
<1>1. 1 \in DOMAIN Kinds
  BY KindsFacts
<1>2. QED BY <1>1, KindsFacts

LEMMA SmoothStep == ASSUME IInv, [Next]_vars, Smooth' PROVE Smooth
<1>1. faults \in Nat /\ faults' \in Nat /\ clash \in BOOLEAN
  BY NextIInv DEF IInv, Types, MiscType
<1>2. clash => clash'
  <2>1. ASSUME NEW c \in Collectors, Collect(c) \/ Trouble(c), clash PROVE clash'
    BY <2>1, ClashStays DEF IInv
  <2>2. QED
    BY <2>1 DEF Next, Send, Crash, Start, Syncing, Sort, Upload, Remove, SyncTrouble, SortFails,
                UploadFails, RemoveFails, SyncCrash, Ended, hvars, vars
<1>3. faults <= faults'
  <2>1. ASSUME NEW c \in Collectors, Collect(c) \/ Trouble(c) PROVE faults <= faults'
    BY <1>1, <2>1
       DEF Collect, Trouble, Take, Create, Write, Close, Publish, Report, CreateFails,
           WriteFails, CloseFails, Fails, hvars
  <2>2. ASSUME NEW k \in KindSet, Crash \/ SyncCrash \/ SyncTrouble(k) PROVE faults <= faults'
    BY <1>1, <2>2 DEF Crash, SyncCrash, SyncTrouble, SortFails, UploadFails, RemoveFails, Fails
  <2>3. ASSUME NEW k \in KindSet,
               (\E s \in Stamps : Send(s)) \/ Start \/ Syncing(k) \/ Ended \/ UNCHANGED vars
        PROVE  faults' = faults
    BY <2>3 DEF Send, Start, Syncing, Sort, Upload, Remove, Ended, hvars, vars
  <2>4. \E k \in KindSet : TRUE
    BY SomeKind
  <2>5. QED BY <1>1, <2>1, <2>2, <2>3, <2>4 DEF Next
<1>4. QED BY <1>1, <1>2, <1>3 DEF Smooth

(* A failure is not smooth.                                                *)
LEMMA FailsRough == ASSUME IInv, Fails PROVE ~Smooth'
BY DEF Fails, Smooth, IInv, Types, MiscType

(* Another update is accepted.                                             *)
LEMMA SendFinal ==
  ASSUME IInv, Smooth, FinalInv, NEW s \in Stamps, Send(s) PROVE FinalInv'
<1> USE DEF FinalInv
<1>1. /\ queue \in Seq(Stamps \X Versions) /\ sent \in [Stamps -> Nat]
      /\ queue' = Append(queue, <<s, sent[s] + 1>>)
      /\ sent' = [sent EXCEPT ![s] = sent[s] + 1]
      /\ UNCHANGED <<cvars, filed, unheard>>
  BY DEF IInv, Types, MiscType, Send, hvars
<1>2. /\ Len(queue) \in Nat /\ DOMAIN queue = 1..Len(queue)
      /\ DOMAIN queue' = 1..(Len(queue) + 1)
      /\ queue'[Len(queue) + 1] = <<s, sent[s] + 1>>
      /\ \A i \in DOMAIN queue : queue'[i] = queue[i] /\ queue[i] \in Stamps \X Versions
  BY <1>1
<1>3. \A v \in Versions : v \in Nat
  BY FilesAssumption DEF Versions
<1>4. InOrder'
  <2>1. \A i \in DOMAIN queue : queue[i][1] \in Stamps /\ queue[i][2] \in Nat
    BY <1>2, <1>3
  <2>2. \A i \in DOMAIN queue' : queue'[i][2] <= sent'[queue'[i][1]]
    BY <1>1, <1>2, <2>1 DEF InOrder
  <2>3. ASSUME NEW i \in DOMAIN queue', NEW j \in DOMAIN queue', i < j,
               queue'[i][1] = queue'[j][1]
        PROVE  queue'[i][2] < queue'[j][2]
    <3>1. CASE j \in DOMAIN queue
      BY <1>2, <2>3, <3>1 DEF InOrder
    <3>2. CASE j = Len(queue) + 1
      <4>1. i \in DOMAIN queue /\ queue[i][1] = s
        BY <1>2, <2>3, <3>2
      <4>2. queue[i][2] <= sent[s]
        BY <4>1 DEF InOrder
      <4>3. QED BY <1>1, <1>2, <2>1, <3>2, <4>1, <4>2
    <3>3. QED BY <1>2, <3>1, <3>2
  <2>4. QED BY <2>2, <2>3 DEF InOrder
<1>5. ASSUME NEW t \in Stamps PROVE LastOne(t)'
  <2>1. CASE t = s
    <3>1. sent'[t] = sent[s] + 1 /\ Len(queue) + 1 \in DOMAIN queue'
      BY <1>1, <1>2, <2>1
    <3>2. \E i \in DOMAIN queue' : queue'[i] = <<t, sent'[t]>>
      BY <1>2, <2>1, <3>1
    <3>3. QED BY <3>2 DEF LastOne, Queued
  <2>2. CASE t # s
    <3>1. sent'[t] = sent[t]
      BY <1>1, <2>2
    <3>2. Queued(t, sent[t]) => \E i \in DOMAIN queue' : queue'[i] = <<t, sent[t]>>
      <4>1. DOMAIN queue \subseteq DOMAIN queue'
        BY <1>2
      <4>2. QED BY <1>2, <4>1 DEF Queued
    <3>3. ~Waits(t) => ~Waits(t)'
      <4>1. ASSUME NEW i \in DOMAIN queue', queue'[i][1] = t PROVE Waits(t)
        BY <1>2, <2>2, <4>1 DEF Waits
      <4>2. QED BY <4>1 DEF Waits
    <3>4. QED BY <1>1, <3>1, <3>2, <3>3 DEF LastOne, Worked, Queued, cvars
  <2>3. QED BY <2>1, <2>2
<1>6. Progress' /\ unheard' = {}
  BY <1>1 DEF Progress, cvars
<1>7. QED BY <1>4, <1>5, <1>6

(* A collector takes the first of the channel.                             *)
LEMMA TakeFinal ==
  ASSUME IInv, Smooth, FinalInv, NEW c \in Collectors, Take(c), Smooth' PROVE FinalInv'
<1> USE DEF FinalInv
<1>1. /\ queue \in Seq(Stamps \X Versions) /\ sent \in [Stamps -> Nat]
      /\ queue # <<>> /\ queue' = Tail(queue)
      /\ UNCHANGED <<sent, filed, unheard, err>>
  BY DEF IInv, Types, MiscType, Take
<1>p. PICK s \in Stamps, v \in Versions : queue[1] = <<s, v>> /\ Head(queue) = <<s, v>>
  BY <1>1
<1>2. /\ Len(queue) \in Nat /\ DOMAIN queue = 1..Len(queue) /\ 1 \in DOMAIN queue
      /\ DOMAIN queue' = 1..(Len(queue) - 1)
      /\ \A i \in DOMAIN queue' : queue'[i] = queue[i + 1] /\ i + 1 \in DOMAIN queue
      /\ \A i \in DOMAIN queue : i = 1 \/ (i - 1 \in DOMAIN queue' /\ queue'[i - 1] = queue[i])
      /\ \A i \in DOMAIN queue : queue[i] \in Stamps \X Versions
  BY <1>1
<1>3. \A w \in Versions : w \in Nat /\ w # 0
  BY FilesAssumption DEF Versions
<1>4. /\ hand' = [hand EXCEPT ![c] = s] /\ ver' = [ver EXCEPT ![c] = v]
      /\ kind' = [kind EXCEPT ![c] = 1] /\ step' = [step EXCEPT ![c] = "create"]
      /\ hand \in [Collectors -> Stamps \cup {NoOne}] /\ ver \in [Collectors -> Versions \cup {0}]
      /\ kind \in [Collectors -> DOMAIN Kinds] /\ step \in [Collectors -> Steps]
  <2>1. Head(queue)[1] = s /\ Head(queue)[2] = v
    BY <1>p
  <2>2. /\ hand' = [hand EXCEPT ![c] = Head(queue)[1]]
        /\ ver' = [ver EXCEPT ![c] = Head(queue)[2]]
        /\ kind' = [kind EXCEPT ![c] = 1] /\ step' = [step EXCEPT ![c] = "create"]
    BY DEF Take, To
  <2>3. QED BY <2>1, <2>2 DEF IInv, Types, CollType
<1>5. \A d \in Collectors \ {c} : hand[d] # s
  <2>1. ~\E d \in Collectors \ {c} : hand[d] = Head(queue)[1]
    BY DEF Take, Smooth
  <2>2. QED BY <1>p, <2>1
<1>6. hand[c] = NoOne
  BY DEF Take, IInv, Order, Held
<1>7. InOrder'
  <2>1. \A i \in DOMAIN queue' : queue'[i][2] <= sent'[queue'[i][1]]
    BY <1>1, <1>2 DEF InOrder
  <2>2. ASSUME NEW i \in DOMAIN queue', NEW j \in DOMAIN queue', i < j,
               queue'[i][1] = queue'[j][1]
        PROVE  queue'[i][2] < queue'[j][2]
    <3>1. i + 1 < j + 1
      BY <1>p, <1>2, <2>2
    <3>2. QED BY <1>p, <1>2, <2>2, <3>1 DEF InOrder
  <2>3. QED BY <2>1, <2>2 DEF InOrder
<1>8. ASSUME NEW t \in Stamps PROVE LastOne(t)'
  <2>1. CASE t = s
    <3>1. hand'[c] = s /\ ver'[c] = v
      BY <1>4
    <3>2. ~Worked(s)
      BY <1>p, <1>2, <1>5, <1>6, FilesAssumption DEF Worked
    <3>3. Waits(s)
      BY <1>p, <1>2 DEF Waits
    <3>4. CASE sent[s] = 0
      BY <1>1, <2>1, <3>4 DEF LastOne
    <3>5. ASSUME NEW i \in DOMAIN queue, queue[i] = <<s, sent[s]>> PROVE LastOne(t)'
      <4>1. CASE i = 1
        <5>1. v = sent[s]
          BY <1>p, <1>2, <3>5, <4>1
        <5>2. ASSUME NEW j \in DOMAIN queue', queue'[j][1] = s PROVE FALSE
          <6>1. queue[j + 1][1] = s /\ j + 1 \in DOMAIN queue /\ 1 < j + 1
            BY <1>p, <1>2, <5>2
          <6>2. v < queue[j + 1][2] /\ queue[j + 1][2] <= sent[s]
            BY <1>p, <1>2, <6>1 DEF InOrder
          <6>3. queue[j + 1][2] \in Nat /\ v \in Nat
            BY <1>2, <1>3, <6>1
          <6>4. QED BY <1>1, <5>1, <6>2, <6>3
        <5>3. ~Waits(s)'
          BY <5>2 DEF Waits
        <5>4. QED BY <1>1, <2>1, <3>1, <5>1, <5>3 DEF LastOne
      <4>2. CASE i # 1
        <5>1. Queued(s, sent[s])'
          BY <1>1, <1>p, <1>2, <3>5, <4>2 DEF Queued
        <5>2. QED BY <1>1, <2>1, <5>1 DEF LastOne, Queued
      <4>3. QED BY <4>1, <4>2
    <3>6. QED BY <1>p, <1>2, <2>1, <3>2, <3>3, <3>4, <3>5 DEF LastOne, Queued
  <2>2. CASE t # s
    <3>1. \A w : Queued(t, w) => Queued(t, w)'
      <4>1. ASSUME NEW w, NEW i \in DOMAIN queue, queue[i] = <<t, w>> PROVE Queued(t, w)'
        <5>1. i # 1
          BY <1>p, <1>2, <2>2, <4>1
        <5>2. QED BY <1>p, <1>2, <4>1, <5>1 DEF Queued
      <4>2. QED BY <4>1 DEF Queued
    <3>2. ~Waits(t) => ~Waits(t)'
      BY <1>2 DEF Waits
    <3>3. \A d \in Collectors : hand[d] = t => hand'[d] = t /\ ver'[d] = ver[d]
      BY <1>4, <1>6, FilesAssumption
    <3>4. ~Worked(t) => ~Worked(t)'
      BY <1>4, <2>2 DEF Worked
    <3>5. QED BY <1>1, <3>1, <3>2, <3>3, <3>4 DEF LastOne, Queued
  <2>3. QED BY <2>1, <2>2
<1>9. Progress'
  BY <1>1, <1>4 DEF Progress
<1>10. QED BY <1>1, <1>7, <1>8, <1>9

(* A file is renamed into place.                                           *)
LEMMA PublishFinal ==
  ASSUME IInv, Smooth, FinalInv, NEW c \in Collectors, Publish(c) PROVE FinalInv'
<1> USE DEF FinalInv
<1>1. /\ hand \in [Collectors -> Stamps \cup {NoOne}] /\ ver \in [Collectors -> Versions \cup {0}]
      /\ kind \in [Collectors -> DOMAIN Kinds] /\ step \in [Collectors -> Steps]
      /\ filed \in [Files -> Versions \cup {0}]
  BY DEF IInv, Types, CollType, MiscType
<1>2. hand[c] # NoOne /\ hand[c] \in Stamps /\ ver[c] \in Versions /\ FileOf(c) \in Files
  BY <1>1, FileOfType DEF IInv, Types, Order, Held, Publish
<1>3. ~err[c] /\ Proceed(c) /\ UNCHANGED <<queue, sent, err, unheard>>
  BY DEF Progress, Publish
<1>4. disk["lock"][FileOf(c)] = Whole(ver[c])
  BY <1>3 DEF IInv, Order, LockOK, LockIs, Smooth, Publish
<1>5. filed' = [filed EXCEPT ![FileOf(c)] = ver[c]]
  BY <1>4 DEF Publish
<1>6. \A d \in Collectors \ {c} :
         /\ hand'[d] = hand[d] /\ ver'[d] = ver[d] /\ kind'[d] = kind[d] /\ step'[d] = step[d]
         /\ hand[d] # hand[c]
  BY <1>2, HandsFacts DEF IInv, Order, Apart, Smooth, Collect
<1>7. Len(Kinds) \in Nat \ {0} /\ DOMAIN Kinds = 1..Len(Kinds)
  BY KindsFacts
<1>8. /\ filed'[<<hand[c], Kinds[kind[c]]>>] = ver[c]
      /\ \A i \in 1..(kind[c] - 1) : filed'[<<hand[c], Kinds[i]>>] = ver[c]
      /\ \A s \in Stamps, k \in KindSet : s # hand[c] => filed'[<<s, k>>] = filed[<<s, k>>]
  <2>1. filed'[<<hand[c], Kinds[kind[c]]>>] = ver[c]
    BY <1>1, <1>2, <1>5 DEF FileOf
  <2>2. ASSUME NEW i \in 1..(kind[c] - 1) PROVE filed'[<<hand[c], Kinds[i]>>] = ver[c]
    <3>1. i \in DOMAIN Kinds /\ i # kind[c] /\ kind[c] \in DOMAIN Kinds
      BY <1>1, <1>7
    <3>2. Kinds[i] # Kinds[kind[c]] /\ <<hand[c], Kinds[i]>> \in Files
      BY <1>2, <3>1, FilesAssumption, KindsFacts DEF Files
    <3>3. filed[<<hand[c], Kinds[i]>>] = ver[c]
      BY <1>2 DEF Progress
    <3>4. QED BY <1>1, <1>5, <3>2, <3>3 DEF FileOf
  <2>3. ASSUME NEW s \in Stamps, NEW k \in KindSet, s # hand[c]
        PROVE  filed'[<<s, k>>] = filed[<<s, k>>]
    BY <1>1, <1>5, <2>3 DEF FileOf, Files
  <2>4. QED BY <2>1, <2>2, <2>3
<1>9. CASE kind[c] = Len(Kinds)
  <2>1. /\ hand' = [hand EXCEPT ![c] = NoOne] /\ ver' = [ver EXCEPT ![c] = 0]
        /\ kind' = [kind EXCEPT ![c] = 1] /\ step' = [step EXCEPT ![c] = "idle"]
    BY <1>3, <1>9 DEF Proceed, To
  <2>2. \A k \in KindSet : filed'[<<hand[c], k>>] = ver[c]
    <3>1. ASSUME NEW i \in DOMAIN Kinds PROVE filed'[<<hand[c], Kinds[i]>>] = ver[c]
      <4>1. i = kind[c] \/ i \in 1..(kind[c] - 1)
        BY <1>7, <1>9
      <4>2. QED BY <1>8, <4>1
    <3>2. QED BY <3>1 DEF KindSet
  <2>3. ASSUME NEW s \in Stamps PROVE LastOne(s)'
    <3>1. CASE s = hand[c]
      <4>1. ~Worked(s)'
        BY <1>1, <1>2, <1>6, <2>1, <3>1, FilesAssumption DEF Worked
      <4>2. CASE ~Waits(s) /\ \E d \in Collectors : hand[d] = s /\ ver[d] = sent[s]
        <5>1. ver[c] = sent[s]
          BY <1>6, <3>1, <4>2
        <5>2. QED BY <1>3, <2>2, <3>1, <4>1, <4>2, <5>1 DEF LastOne, Waits
      <4>3. QED BY <1>3, <3>1, <4>2 DEF LastOne, Queued, Worked
    <3>2. CASE s # hand[c]
      <4>1. \A k \in KindSet : filed'[<<s, k>>] = filed[<<s, k>>]
        BY <1>8, <3>2
      <4>2. \A d \in Collectors : hand'[d] = s <=> hand[d] = s
        BY <1>1, <1>6, <2>1, <3>2, FilesAssumption
      <4>3. \A d \in Collectors : hand[d] = s => ver'[d] = ver[d]
        BY <1>6, <3>2
      <4>4. QED BY <1>3, <4>1, <4>2, <4>3 DEF LastOne, Queued, Waits, Worked
    <3>3. QED BY <3>1, <3>2
  <2>4. Progress'
    <3>1. ASSUME NEW d \in Collectors \ {c}, hand[d] # NoOne, NEW i \in 1..(kind[d] - 1)
          PROVE  filed'[<<hand[d], Kinds[i]>>] = ver[d]
      <4>1. hand[d] \in Stamps /\ Kinds[i] \in KindSet
        BY <1>1, <1>7, <3>1, KindsFacts
      <4>2. QED BY <1>6, <1>8, <3>1, <4>1 DEF Progress
    <3>2. QED BY <1>1, <1>3, <1>6, <2>1, <3>1 DEF Progress
  <2>5. QED BY <1>3, <2>3, <2>4 DEF InOrder
<1>10. CASE kind[c] # Len(Kinds)
  <2>1. /\ hand' = hand /\ ver' = ver
        /\ kind' = [kind EXCEPT ![c] = kind[c] + 1] /\ step' = [step EXCEPT ![c] = "create"]
    BY <1>3, <1>10 DEF Proceed, To
  <2>2. ASSUME NEW s \in Stamps PROVE LastOne(s)'
    <3>1. CASE s = hand[c]
      BY <1>3, <2>1, <3>1 DEF LastOne, Queued, Waits, Worked
    <3>2. CASE s # hand[c]
      <4>1. \A k \in KindSet : filed'[<<s, k>>] = filed[<<s, k>>]
        BY <1>8, <3>2
      <4>2. QED BY <1>3, <2>1, <4>1 DEF LastOne, Queued, Waits, Worked
    <3>3. QED BY <3>1, <3>2
  <2>3. Progress'
    <3>1. ASSUME NEW d \in Collectors \ {c}, hand[d] # NoOne, NEW i \in 1..(kind[d] - 1)
          PROVE  filed'[<<hand[d], Kinds[i]>>] = ver[d]
      <4>1. hand[d] \in Stamps /\ Kinds[i] \in KindSet
        BY <1>1, <1>7, <3>1, KindsFacts
      <4>2. QED BY <1>6, <1>8, <3>1, <4>1 DEF Progress
    <3>2. ASSUME NEW i \in 1..(kind'[c] - 1) PROVE filed'[<<hand[c], Kinds[i]>>] = ver[c]
      <4>1. i = kind[c] \/ i \in 1..(kind[c] - 1)
        BY <1>1, <1>7, <2>1
      <4>2. QED BY <1>8, <4>1
    <3>3. QED BY <1>1, <1>3, <1>6, <2>1, <3>1, <3>2 DEF Progress
  <2>4. QED BY <1>3, <2>2, <2>3 DEF InOrder
<1>11. QED BY <1>9, <1>10

LEMMA NextFinal == IInv /\ FinalInv /\ [Next]_vars => FinalInv'
<1> SUFFICES ASSUME IInv, FinalInv, [Next]_vars, Smooth' PROVE FinalInv'
  BY DEF FinalInv
<1>0. Smooth
  BY SmoothStep
<1>1. ASSUME UNCHANGED <<queue, sent, hand, ver, kind, filed, err, unheard>>,
             \A c \in Collectors : step'[c] # "report"
      PROVE  FinalInv'
  BY <1>0, <1>1 DEF FinalInv, InOrder, LastOne, Queued, Waits, Worked, Progress
<1>2. ASSUME NEW c \in Collectors, Collect(c) PROVE FinalInv'
  <2>1. CASE Create(c) \/ Write(c) \/ Close(c)
    <3>1. \A d \in Collectors : step'[d] # "report"
      BY <1>0, <2>1
         DEF Create, Write, Close, To, FinalInv, Progress, IInv, Types, CollType
    <3>2. QED BY <1>1, <2>1, <3>1 DEF Create, Write, Close, hvars
  <2>2. ~Report(c)
    BY <1>0 DEF Report, FinalInv, Progress
  <2>3. QED BY <1>0, <1>2, <2>1, <2>2, TakeFinal, PublishFinal DEF Collect
<1>3. ASSUME NEW c \in Collectors, Trouble(c) PROVE FALSE
  BY <1>3, FailsRough DEF Trouble, CreateFails, WriteFails, CloseFails
<1>4. ASSUME NEW k \in KindSet, Start \/ Syncing(k) \/ Ended \/ UNCHANGED vars PROVE FinalInv'
  <2>1. UNCHANGED <<queue, sent, hand, ver, kind, filed, err, unheard, step>>
    BY <1>4 DEF Start, Syncing, Sort, Upload, Remove, Ended, vars, cvars, hvars
  <2>2. QED BY <1>0, <1>1, <2>1 DEF FinalInv, Progress
<1>5. ~Crash /\ ~SyncCrash /\ \A k \in KindSet : ~SyncTrouble(k)
  BY FailsRough DEF Crash, SyncCrash, SyncTrouble, SortFails, UploadFails, RemoveFails
<1>6. \E k \in KindSet : TRUE
  BY SomeKind
<1>7. QED BY <1>0, <1>2, <1>3, <1>4, <1>5, <1>6, SendFinal DEF Next

LEMMA FinalInvariant == Spec => []FinalInv
<1>1. Init => FinalInv
  BY DEF Init, FinalInv, InOrder, LastOne, Progress
<1>2. QED BY <1>1, NextFinal, Invariant, PTL DEF Spec

(* What is left of a match when all is written is its final update, unless *)
(* two collectors were busy with updates of one match at a time: the       *)
(* finding of the run final_update is the only way to miss the promise     *)
(* (README.md:14-15, collect.go:44-76).                                    *)
THEOREM FinalUnlessClash == Spec => [](~clash => FinalUpdate)
<1>1. IInv /\ FinalInv => (~clash => FinalUpdate)
  <2> SUFFICES ASSUME IInv, FinalInv, ~clash, Quiet, faults = 0,
                      NEW f \in Files, NEW v \in Versions, v < sent[f[1]]
               PROVE  Newest(f) # Whole(v)
    BY DEF FinalUpdate
  <2>1. f[1] \in Stamps /\ f[2] \in KindSet /\ f = <<f[1], f[2]>>
    BY DEF Files
  <2>2. v \in Nat /\ v # 0 /\ sent[f[1]] \in Nat
    BY <2>1, FilesAssumption DEF Versions, IInv, Types, MiscType
  <2>3. \A c \in Collectors : hand[c] = NoOne
    BY DEF Quiet, IInv, Order, Held
  <2>4. filed[f] = sent[f[1]]
    <3>1. LastOne(f[1])
      BY <2>1 DEF FinalInv, Smooth
    <3>2. ~Queued(f[1], sent[f[1]])
      BY DEF Quiet, Queued
    <3>3. QED BY <2>1, <2>2, <2>3, <3>1, <3>2, FilesAssumption DEF LastOne
  <2>5. Newest(f) = Whole(filed[f])
    BY <2>2, <2>4 DEF IInv, NothingLost
  <2>6. <<v, "head">> \in Whole(v) /\ <<v, "head">> \notin Whole(filed[f])
    BY <2>2, <2>4 DEF Whole
  <2>7. QED BY <2>5, <2>6
<1>2. QED BY <1>1, FinalInvariant, Invariant, PTL

(* With one collector there is no clash, and the README's promise holds:   *)
(* two collectors on one channel are what breaks it (lobby.go:274).        *)
THEOREM FinalWithOneCollector ==
  ASSUME \A c, d \in Collectors : c = d PROVE Spec => []FinalUpdate
<1>1. Init => ~clash
  BY DEF Init
<1>2. ~clash /\ [Next]_vars => ~clash'
  <2> SUFFICES ASSUME ~clash, [Next]_vars PROVE ~clash'
    OBVIOUS
  <2>1. ASSUME NEW c \in Collectors, Collect(c) \/ Trouble(c) PROVE ~clash'
    BY <2>1 DEF Collect, Trouble, Take, Create, Write, Close, Publish, Report, CreateFails,
                WriteFails, CloseFails, hvars
  <2>2. QED
    BY <2>1 DEF Next, Send, Crash, Start, Syncing, Sort, Upload, Remove, SyncTrouble, SortFails,
                UploadFails, RemoveFails, SyncCrash, Ended, hvars, vars
<1>3. Spec => []~clash
  BY <1>1, <1>2, PTL DEF Spec
<1>4. QED BY <1>3, FinalUnlessClash, PTL
=============================================================================
