--------------------------- MODULE VsdCardProofs ---------------------------
(***************************************************************************)
(* What vsd.c guarantees on a card of any size, whatever the Evo writes:   *)
(* its table of runs is sound and neither file system acts on a stale FAT  *)
(* sector; until the Evo is started again, with a slot of the run table to *)
(* spare, the firmware's files keep their data and their chains, and the   *)
(* runs hold exactly the clusters of /evo/SD, its root among them; and if  *)
(* nothing is allocated, whatever is cut off, fails or does not fit.       *)
(***************************************************************************)
EXTENDS VsdCard, VsdRunsProofs, FiniteSetTheorems

CachedImage == Image \cup {NoCopy}

(* TypeOK in parts, with the runs sorted, a merge that has its sectors, and *)
(* a driver that has read the FAT it is to write.                          *)
CardOK ==
    /\ fat \in [Copies -> Image] /\ sd \in [Files -> {Free} \cup Clusters]
    /\ host \in [Clusters -> {Free, Eoc}] /\ spoilt \subseteq Clusters
    /\ settings \in {Free} \cup Clusters /\ win \in CachedImage
Walks == [f : 0..NFiles, c : {Free, Eoc} \cup Clusters, guard : 0..n_fatent]
Merges == [k : 0..n_fats, c : 0..n_fatent, b : CachedImage, old : CachedImage]
GuardOK ==
    /\ vpc \in {"off", "none", "walk", "idle", "merge"}
    /\ Sorted(ext) /\ fc \in [Copies -> CachedImage] /\ others \in BOOLEAN
    /\ walk \in Walks /\ wr \in Merges
    /\ vpc = "merge" => wr.k \in Copies /\ wr.b \in Image /\ wr.old \in Image
Operations == [f : 0..NFiles, c : {Free} \cup Clusters, fats : SUBSET Copies,
               data : BOOLEAN, dir : BOOLEAN]
EvoOK ==
    /\ img \in CachedImage /\ op \in Operations
    /\ op.fats # {} => img \in Image
    /\ op.data => op.c \in Clusters
Types == CardOK /\ GuardOK /\ EvoOK /\ boots \in 1..MaxBoots

LEMMA TypesAreOK == Types => TypeOK
BY DEF Types, CardOK, GuardOK, EvoOK, TypeOK, CachedImage, Walks, Merges, Operations, Sorted

-----------------------------------------------------------------------------
LEMMA Constants ==
    /\ n_fatent \in Nat /\ n_fatent > 2 /\ n_fats \in Nat /\ NFiles \in Nat
    /\ 1 \in Copies /\ sdroot \in Clusters /\ Settings \in Clusters
    /\ Clusters \subseteq Nat /\ Free \notin Clusters /\ Eoc \notin Clusters /\ Free # Eoc
    /\ Free \in Entry /\ Eoc \in Entry /\ Clusters \subseteq Entry
    /\ Written \subseteq Entry
    /\ \A d \in Entry : d = Free \/ d = Eoc \/ d \in Clusters
BY CardAssumption DEF Clusters, Copies, Entry, Free, Eoc

\* fat_sec of copy k: it is cached then, and nothing else has changed.
LEMMA FatSecIs ==
    ASSUME fat \in [Copies -> Image], NEW f \in [Copies -> CachedImage], NEW k \in Copies
    PROVE  /\ FatSec(f, k) \in [Copies -> CachedImage]
           /\ FatSec(f, k)[k] \in Image
           /\ f[k] \in {NoCopy, fat[k]} => FatSec(f, k)[k] = fat[k]
           /\ \A j \in Copies : j # k => FatSec(f, k)[j] = f[j]
           /\ \A j \in Copies : f[j] \in {NoCopy, fat[j]} => FatSec(f, k)[j] \in {NoCopy, fat[j]}
           /\ \A j \in Copies : f[j] # NoCopy => FatSec(f, k)[j] = f[j]
BY DEF FatSec, CachedImage

\* What the lock's holder finds in the cache.
LEMMA KeptIs ==
    ASSUME fat \in [Copies -> Image], fc \in [Copies -> CachedImage], others \in BOOLEAN
    PROVE  /\ Kept \in [Copies -> CachedImage]
           /\ NoStaleSector => \A j \in Copies : Kept[j] \in {NoCopy, fat[j]}
BY DEF Kept, CachedImage, NoStaleSector

LEMMA ChainIsClusters == ASSUME NEW i, NEW c PROVE Chain(i, c) \subseteq Clusters
BY DEF Chain

LEMMA ClearedIs ==
    ASSUME NEW i \in Image, NEW S
    PROVE  Cleared(i, S) \in Image
BY Constants DEF Cleared, Image

\* An entry of an image replaced.
LEMMA ImageExcept ==
    ASSUME NEW i \in Image, NEW c \in Clusters, NEW n \in Entry
    PROVE  [i EXCEPT ![c] = n] \in Image
BY DEF Image

-----------------------------------------------------------------------------
(* Types.                                                                  *)

\* A cluster of /evo/SD links to another of it, or is a chain's last.
LEMMA NextInTreeIs ==
    ASSUME NEW c \in Clusters
    PROVE  NextInTree(c) = Eoc \/ (NextInTree(c) \in Clusters /\ InTree(NextInTree(c)))
<1> DEFINE follows(d) == \E f \in Files : \E i \in 1..Len(Tree[f]) - 1 :
                            Tree[f][i] = c /\ Tree[f][i + 1] = d
<1>1. CASE ~\E d \in Clusters : follows(d)
  <2>1. NextInTree(c) = Eoc BY <1>1 DEF NextInTree
  <2> QED BY <2>1
<1>2. CASE \E d \in Clusters : follows(d)
  <2>1. NextInTree(c) = CHOOSE d \in Clusters : follows(d) BY <1>2 DEF NextInTree
  <2>2. NextInTree(c) \in Clusters /\ follows(NextInTree(c)) BY <1>2, <2>1
  <2>3. InTree(NextInTree(c))
    <3>0. PICK f \in Files : \E i \in 1..Len(Tree[f]) - 1 : Tree[f][i + 1] = NextInTree(c) BY <2>2
    <3>1. PICK i \in 1..Len(Tree[f]) - 1 : Tree[f][i + 1] = NextInTree(c) BY <3>0
    <3>2. Tree[f] \in Seq(Clusters) BY CardAssumption
    <3>3. i + 1 \in 1..Len(Tree[f]) /\ DOMAIN Tree[f] = 1..Len(Tree[f]) BY <3>2, LenProperties
    <3> QED BY <3>1, <3>3 DEF InTree
  <2> QED BY <2>2, <2>3
<1> QED BY <1>1, <1>2

LEMMA FileIs ==
    ASSUME NEW f \in Files
    PROVE  /\ Len(Tree[f]) \in Nat /\ DOMAIN Tree[f] = 1..Len(Tree[f])
           /\ Tree[f] # <<>> => Len(Tree[f]) > 0
           /\ \A i \in DOMAIN Tree[f] :
                 /\ Tree[f][i] \in Clusters
                 /\ Tree[f][i] # Settings /\ Tree[f][i] \notin Own
<1> DEFINE Other == Clusters \ ({sdroot, Settings} \cup Own)
<1>1. Tree[f] \in Seq(Other) BY CardAssumption
<1>2. Other \subseteq Clusters /\ Settings \notin Other /\ \A x \in Other : x \notin Own OBVIOUS
<1> HIDE DEF Other
<1>3. Len(Tree[f]) \in Nat /\ DOMAIN Tree[f] = 1..Len(Tree[f]) BY <1>1, LenProperties
<1>4. \A i \in 1..Len(Tree[f]) : Tree[f][i] \in Other BY <1>1, ElementOfSeq
<1>5. Tree[f] # <<>> => Len(Tree[f]) # 0 BY <1>1, EmptySeq
<1> QED BY <1>2, <1>3, <1>4, <1>5

LEMMA TreeIs ==
    ASSUME NEW c \in Clusters, InTree(c)
    PROVE  c \notin Own \cup {Settings}
<1>1. sdroot \notin Own \cup {Settings} BY CardAssumption
<1> QED BY <1>1, FileIs DEF InTree

\* A file that has clusters starts with one of its own.
LEMMA TreeStarts ==
    ASSUME NEW f \in Files, Tree[f] # <<>>
    PROVE  Tree[f][1] \in Clusters /\ InTree(Tree[f][1])
<1>1. 1 \in DOMAIN Tree[f] BY FileIs
<1>2. Tree[f][1] \in Clusters BY <1>1, FileIs
<1> QED BY <1>1, <1>2 DEF InTree

LEMMA TypesInit == Init => Types
<1> SUFFICES ASSUME Init PROVE Types OBVIOUS
<1> USE Constants
<1>1. CardOK
  <2>1. \A c \in Clusters : NextInTree(c) \in Entry BY NextInTreeIs
  <2>2. fat \in [Copies -> Image] BY <2>1 DEF Init, Image
  <2>3. sd \in [Files -> {Free} \cup Clusters] BY TreeStarts DEF Init
  <2>4. host \in [Clusters -> {Free, Eoc}] BY DEF Init
  <2>5. /\ spoilt \subseteq Clusters /\ settings \in {Free} \cup Clusters
        /\ win \in CachedImage
    BY DEF Init, CachedImage
  <2> QED BY <2>2, <2>3, <2>4, <2>5 DEF CardOK
<1>2. GuardOK
  <2>1. Sorted(ext)
    <3>1. ext = <<>> BY DEF Init
    <3> QED BY <3>1, EmptySeq DEF Sorted
  <2>2. walk \in Walks BY DEF Init, NoWalk, Free, Walks
  <2>3. wr \in Merges BY DEF Init, NoWrite, Merges, CachedImage
  <2>4. fc \in [Copies -> CachedImage] BY DEF Init, CachedImage
  <2>5. vpc = "off" /\ others \in BOOLEAN BY DEF Init
  <2> QED BY <2>1, <2>2, <2>3, <2>4, <2>5 DEF GuardOK
<1>3. EvoOK BY DEF Init, NoOp, Free, EvoOK, Operations, CachedImage
<1>4. boots \in 1..MaxBoots BY CardAssumption DEF Init
<1> QED BY <1>1, <1>2, <1>3, <1>4 DEF Types

\* Steps of the guard.
LEMMA TypesGuard == ASSUME Types, Guard PROVE Types'
<1> USE Constants DEF Types
<1>1. CASE Scan
  <2>1. CardOK' BY <1>1 DEF Scan, CardOK, cardVars, CachedImage
  <2>2. Sorted(ext)' BY <1>1, EmptySeq DEF Scan, Sorted
  <2>3. walk' \in Walks BY <1>1 DEF Scan, Walks
  <2>4. GuardOK' BY <1>1, <2>2, <2>3 DEF Scan, GuardOK, CachedImage
  <2>5. EvoOK' /\ boots' = boots BY <1>1 DEF Scan, EvoOK, evoVars
  <2> QED BY <2>1, <2>4, <2>5
<1>2. CASE ScanFails
  <2>1. CardOK' BY <1>2 DEF ScanFails, CardOK, cardVars
  <2>2. Sorted(ext)' BY <1>2, EmptySeq DEF ScanFails, Sorted
  <2>3. GuardOK' BY <1>2, <2>2 DEF ScanFails, GuardOK
  <2>4. EvoOK' /\ boots' = boots BY <1>2 DEF ScanFails, EvoOK, evoVars
  <2> QED BY <2>1, <2>3, <2>4
<1>3. CASE NoteCluster
  <2>1. CardOK' BY <1>3 DEF NoteCluster, CardOK, cardVars
  <2>2. walk.c \in Clusters /\ walk.guard > 0 /\ walk.guard \in 0..n_fatent
    BY <1>3 DEF NoteCluster, ChainGoesOn, GuardOK, Walks
  <2>3. Sorted(ext)'
    <3>1. Sorted(ext) /\ walk.c \in Nat BY <2>2 DEF GuardOK
    <3>2. ext' = ext_add(ext, walk.c) BY <1>3 DEF NoteCluster
    <3> QED BY <3>1, <3>2, AddNotes
  <2>4. FatSec(fc, 1) \in [Copies -> CachedImage] /\ FatSec(fc, 1)[1][walk.c] \in {Free, Eoc} \cup Clusters
    <3>1. FatSec(fc, 1) \in [Copies -> CachedImage] /\ FatSec(fc, 1)[1] \in Image
      BY FatSecIs DEF CardOK, GuardOK
    <3> QED BY <2>2, <3>1 DEF Image, Entry
  <2>5. walk' \in Walks
    <3>1. walk.guard - 1 \in 0..n_fatent /\ walk \in Walks BY <2>2 DEF GuardOK
    <3>2. PICK d \in {Free, Eoc} \cup Clusters : walk' = [walk EXCEPT !.c = d, !.guard = @ - 1]
      BY <1>3, <2>4 DEF NoteCluster
    <3> QED BY <3>1, <3>2 DEF Walks
  <2>6. GuardOK' BY <1>3, <2>3, <2>4, <2>5 DEF NoteCluster, GuardOK
  <2>7. EvoOK' /\ boots' = boots BY <1>3 DEF NoteCluster, EvoOK, evoVars
  <2> QED BY <2>1, <2>6, <2>7
<1>4. CASE NextEntry
  <2>1. CardOK' BY <1>4 DEF NextEntry, CardOK, cardVars
  <2>2. walk' \in Walks
    <3>1. walk.f \in 0..NFiles /\ walk.f < NFiles BY <1>4 DEF NextEntry, GuardOK, Walks
    <3>2. walk.f + 1 \in Files /\ walk.f + 1 \in 0..NFiles BY <3>1 DEF Files
    <3>3. sd[walk.f + 1] \in {Free} \cup Clusters BY <3>2 DEF CardOK
    <3> QED BY <1>4, <3>2, <3>3 DEF NextEntry, Walks
  <2>3. GuardOK' BY <1>4, <2>2 DEF NextEntry, GuardOK
  <2>4. EvoOK' /\ boots' = boots BY <1>4 DEF NextEntry, EvoOK, evoVars
  <2> QED BY <2>1, <2>3, <2>4
<1>5. CASE WalkEnds
  <2>1. CardOK' BY <1>5 DEF WalkEnds, CardOK, cardVars
  <2>2. walk' \in Walks BY <1>5 DEF WalkEnds, NoWalk, Walks, Free
  <2>3. GuardOK' BY <1>5, <2>2 DEF WalkEnds, GuardOK
  <2>4. EvoOK' /\ boots' = boots BY <1>5 DEF WalkEnds, EvoOK, evoVars
  <2> QED BY <2>1, <2>3, <2>4
<1>6. CASE MergeEntry
  <2>1. CardOK' BY <1>6 DEF MergeEntry, CardOK, cardVars
  <2>2. /\ vpc = "merge" /\ wr \in Merges /\ wr.c \in Clusters /\ wr.c \in Nat
        /\ wr.k \in Copies /\ wr.b \in Image /\ wr.old \in Image /\ Sorted(ext)
        /\ wr.b[wr.c] \in Entry
    BY <1>6 DEF MergeEntry, GuardOK, Image
  <2>3. ext' \in {ext, ext_add(ext, wr.c), ext_remove(ext, wr.c)}
    BY <1>6 DEF MergeEntry, Renoted
  <2>4. Sorted(ext)'
    <3>1. Sorted(ext_add(ext, wr.c)) BY <2>2, AddNotes
    <3>2. Sorted(ext_remove(ext, wr.c)) BY <2>2, RemoveForgets
    <3> QED BY <2>2, <2>3, <3>1, <3>2
  <2>5. [wr.old EXCEPT ![wr.c] = wr.b[wr.c]] \in Image BY <2>2, ImageExcept
  <2>6. wr.c + 1 \in 0..n_fatent BY <2>2 DEF Clusters
  <2>7. /\ wr'.k = wr.k /\ wr'.b = wr.b /\ wr'.c = wr.c + 1
        /\ wr'.old \in {wr.old, [wr.old EXCEPT ![wr.c] = wr.b[wr.c]]}
        /\ wr' = [k |-> wr'.k, c |-> wr'.c, b |-> wr'.b, old |-> wr'.old]
    BY <1>6, <2>2 DEF MergeEntry, Merges
  <2>8. wr'.old \in Image /\ wr' \in Merges
    <3>1. wr'.old \in Image BY <2>2, <2>5, <2>7
    <3>2. wr'.old \in CachedImage /\ wr'.b \in CachedImage BY <2>2, <2>7, <3>1 DEF CachedImage
    <3>3. wr'.k \in 0..n_fats BY <2>2, <2>7 DEF Merges
    <3> QED BY <2>6, <2>7, <3>1, <3>2, <3>3 DEF Merges
  <2>9. GuardOK' BY <1>6, <2>2, <2>4, <2>7, <2>8 DEF MergeEntry, GuardOK
  <2>10. EvoOK' /\ boots' = boots BY <1>6 DEF MergeEntry, EvoOK, evoVars
  <2> QED BY <2>1, <2>9, <2>10
<1>7. CASE EndMerge
  <2>1. vpc = "merge" /\ wr.k \in Copies /\ wr.old \in Image BY <1>7 DEF EndMerge, GuardOK
  <2>2. wr.old \in CachedImage /\ NoCopy \in CachedImage BY <2>1 DEF CachedImage
  <2>3. fat' \in [Copies -> Image] /\ win' \in CachedImage
    BY <1>7, <2>1, <2>2 DEF EndMerge, CardOK
  <2>4. CardOK' BY <1>7, <2>3 DEF EndMerge, CardOK
  <2>5. fc' \in [Copies -> CachedImage] BY <1>7, <2>1, <2>2 DEF EndMerge, GuardOK
  <2>6. wr' \in Merges BY <1>7, <2>2 DEF EndMerge, NoWrite, Merges
  <2>7. GuardOK' BY <1>7, <2>5, <2>6 DEF EndMerge, GuardOK
  <2>8. EvoOK' /\ boots' = boots BY <1>7 DEF EndMerge, EvoOK, evoVars
  <2> QED BY <2>4, <2>7, <2>8
<1> QED BY <1>1, <1>2, <1>3, <1>4, <1>5, <1>6, <1>7 DEF Guard

\* The Evo's write of a FAT sector, of a cluster, and its read of the FAT.
LEMMA TypesBeginMerge ==
    ASSUME Types, NEW k \in Copies, NEW b \in Image, BeginMerge(k, b)
    PROVE  CardOK' /\ GuardOK' /\ boots' = boots
<1> USE Constants DEF Types
<1>1. CardOK' BY DEF BeginMerge, CardOK, cardVars
<1>2. Kept \in [Copies -> CachedImage] /\ fat \in [Copies -> Image]
  BY KeptIs DEF CardOK, GuardOK
<1>3. FatSec(Kept, k) \in [Copies -> CachedImage] /\ FatSec(Kept, k)[k] \in Image
  BY <1>2, FatSecIs
<1>4. FatSec(FatSec(Kept, k), 1) \in [Copies -> CachedImage] BY <1>2, <1>3, FatSecIs
<1>5. /\ wr'.k = k /\ wr'.b = b /\ wr'.old \in Image
      /\ wr' \in Merges
  <2>1. k \in 0..n_fats /\ 2 \in 0..n_fatent BY DEF Copies
  <2> QED BY <1>3, <2>1 DEF BeginMerge, Merges, CachedImage
<1>6. GuardOK' BY <1>4, <1>5 DEF BeginMerge, GuardOK
<1> QED BY <1>1, <1>6 DEF BeginMerge

LEMMA TypesMergeFails ==
    ASSUME Types, NEW k \in Copies, MergeFails(k)
    PROVE  CardOK' /\ GuardOK' /\ boots' = boots
<1> USE DEF Types
<1>1. CardOK' BY DEF MergeFails, CardOK, cardVars
<1>2. Kept \in [Copies -> CachedImage] /\ fat \in [Copies -> Image]
  BY KeptIs DEF CardOK, GuardOK
<1>3. FatSec(Kept, k) \in [Copies -> CachedImage] BY <1>2, FatSecIs
<1>4. GuardOK' BY <1>2, <1>3 DEF MergeFails, GuardOK
<1> QED BY <1>1, <1>4 DEF MergeFails

LEMMA TypesDataAsked ==
    ASSUME Types, NEW c \in Clusters, DataAsked(c)
    PROVE  GuardOK' /\ boots' = boots
<1> USE Constants DEF Types
<1>1. Kept \in [Copies -> CachedImage] /\ fat \in [Copies -> Image]
  BY KeptIs DEF CardOK, GuardOK
<1>2. FatSec(Kept, 1) \in [Copies -> CachedImage] BY <1>1, FatSecIs
<1>3. GuardOK' BY <1>1, <1>2 DEF DataAsked, GuardOK
<1> QED BY <1>3 DEF DataAsked

LEMMA TypesDataWrite ==
    ASSUME Types, NEW c \in Clusters, NEW d \in [Files -> {Free} \cup Clusters], DataWrite(c, d)
    PROVE  CardOK' /\ GuardOK' /\ boots' = boots
<1>1. DataAsked(c) BY DEF DataWrite
<1>2. CardOK' BY <1>1 DEF DataWrite, DataAsked, Types, CardOK
<1> QED BY <1>1, <1>2, TypesDataAsked

LEMMA TypesDataRefused ==
    ASSUME Types, NEW c \in Clusters, DataRefused(c)
    PROVE  CardOK' /\ GuardOK' /\ boots' = boots
<1>1. DataAsked(c) BY DEF DataRefused
<1>2. CardOK' BY <1>1 DEF DataRefused, DataAsked, Types, CardOK
<1> QED BY <1>1, <1>2, TypesDataAsked

LEMMA TypesReadFat ==
    ASSUME Types, ReadFat
    PROVE  CardOK' /\ GuardOK' /\ img' \in Image /\ boots' = boots
<1> USE Constants DEF Types
<1>1. CardOK' BY DEF ReadFat, CardOK, cardVars
<1>2. GuardOK' BY KeptIs DEF ReadFat, GuardOK, CardOK
<1>3. img' \in Image BY DEF ReadFat, CardOK
<1> QED BY <1>1, <1>2, <1>3 DEF ReadFat

\* Any sector at all.
LEMMA TypesAnyWrite == ASSUME Types, AnyWrite PROVE Types'
<1>1. EvoOK' BY DEF AnyWrite, Types, EvoOK, evoVars
<1>2. ASSUME NEW k \in Copies, NEW b \in [Clusters -> Written], BeginMerge(k, b) PROVE Types'
  <2>1. b \in Image BY Constants DEF Image
  <2> QED BY <1>1, <1>2, <2>1, TypesBeginMerge DEF Types
<1>3. ASSUME NEW k \in Copies, MergeFails(k) PROVE Types'
  BY <1>1, <1>3, TypesMergeFails DEF Types
<1>4. ASSUME NEW c \in Clusters, DataWrite(c, sd) PROVE Types'
  <2>1. sd \in [Files -> {Free} \cup Clusters] BY DEF Types, CardOK
  <2> QED BY <1>1, <1>4, <2>1, TypesDataWrite DEF Types
<1>5. ASSUME NEW c \in Clusters, DataRefused(c) PROVE Types'
  BY <1>1, <1>5, TypesDataRefused DEF Types
<1> QED BY <1>2, <1>3, <1>4, <1>5 DEF AnyWrite

\* The steps of a driver.
LEMMA TypesDriver == ASSUME Types, Driver PROVE Types'
<1> USE Constants
<1>0. CardOK /\ GuardOK /\ EvoOK /\ boots \in 1..MaxBoots /\ op \in Operations BY DEF Types, EvoOK
<1>1. CASE Mount
  <2>1. ReadFat /\ op' = op BY <1>1 DEF Mount, ReadFat
  <2>2. CardOK' /\ GuardOK' /\ img' \in Image /\ boots' = boots BY <2>1, TypesReadFat
  <2>3. EvoOK' BY <1>0, <2>1, <2>2 DEF EvoOK, CachedImage
  <2> QED BY <1>0, <2>2, <2>3 DEF Types
<1>2. CASE WriteData
  <2>1. op.c \in Clusters BY <1>0, <1>2 DEF WriteData, EvoOK
  <2>2. CardOK' /\ GuardOK' /\ boots' = boots
    <3>1. sd \in [Files -> {Free} \cup Clusters] BY <1>0 DEF CardOK
    <3>2. DataWrite(op.c, sd) \/ DataRefused(op.c) BY <1>2 DEF WriteData
    <3> QED BY <2>1, <3>1, <3>2, TypesDataWrite, TypesDataRefused
  <2>3. op' \in {NoOp, [op EXCEPT !.data = FALSE]} /\ img' = img BY <1>2 DEF WriteData
  <2>4. CASE op' = NoOp BY <1>0, <2>2, <2>3, <2>4 DEF Types, EvoOK, NoOp, Operations, Free
  <2>5. CASE op' = [op EXCEPT !.data = FALSE] BY <1>0, <2>2, <2>3, <2>5 DEF Types, EvoOK, Operations
  <2> QED BY <2>3, <2>4, <2>5
<1>3. CASE WriteDir
  <2>1. [sd EXCEPT ![op.f] = op.c] \in [Files -> {Free} \cup Clusters]
    BY <1>0 DEF CardOK, Operations
  <2>2. CardOK' /\ GuardOK' /\ boots' = boots BY <1>3, <2>1, TypesDataWrite DEF WriteDir
  <2>3. op' = [op EXCEPT !.dir = FALSE] /\ img' = img BY <1>3 DEF WriteDir
  <2>4. EvoOK' BY <1>0, <2>3 DEF EvoOK, Operations
  <2> QED BY <1>0, <2>2, <2>4 DEF Types
<1>4. CASE Done
  <2>1. CardOK' /\ GuardOK' /\ boots' = boots
    BY <1>0, <1>4 DEF Done, CardOK, GuardOK, cardVars, guardVars
  <2>2. op' = NoOp /\ img' = img BY <1>4 DEF Done
  <2>3. EvoOK' BY <1>0, <2>2 DEF EvoOK, NoOp, Operations, Free
  <2> QED BY <1>0, <2>1, <2>3 DEF Types
<1>5. ASSUME NEW f \in Files, Delete(f) PROVE Types'
  <2>1. CardOK' /\ GuardOK' /\ boots' = boots
    BY <1>0, <1>5 DEF Delete, CardOK, GuardOK, cardVars, guardVars
  <2>2. img \in Image BY <1>0, <1>5 DEF Delete, NextOperation, EvoOK, CachedImage
  <2>3. img' \in Image BY <1>5, <2>2, ClearedIs DEF Delete
  <2>4. op' \in Operations /\ ~op'.data BY <1>5 DEF Delete, Operations, Files
  <2>5. EvoOK' BY <2>3, <2>4 DEF EvoOK, CachedImage
  <2> QED BY <1>0, <2>1, <2>5 DEF Types
<1>6. ASSUME NEW f \in Files, NEW c \in Clusters, Create(f, c) PROVE Types'
  <2>1. CardOK' /\ GuardOK' /\ boots' = boots
    BY <1>0, <1>6 DEF Create, CardOK, GuardOK, cardVars, guardVars
  <2>2. img \in Image BY <1>0, <1>6 DEF Create, NextOperation, EvoOK, CachedImage
  <2>3. img' \in Image BY <1>6, <2>2, ImageExcept DEF Create
  <2>4. op' \in Operations /\ op'.c = c BY <1>6 DEF Create, Operations, Files
  <2>5. EvoOK' BY <2>3, <2>4 DEF EvoOK, CachedImage
  <2> QED BY <1>0, <2>1, <2>5 DEF Types
<1>7. ASSUME NEW f \in Files, NEW c \in Clusters, Grow(f, c) PROVE Types'
  <2>1. CardOK' /\ GuardOK' /\ boots' = boots
    BY <1>0, <1>7 DEF Grow, CardOK, GuardOK, cardVars, guardVars
  <2>2. img \in Image BY <1>0, <1>7 DEF Grow, NextOperation, EvoOK, CachedImage
  <2>3. PICK last \in Chain(img, sd[f]) : img' = [img EXCEPT ![c] = Eoc, ![last] = c]
    BY <1>7 DEF Grow
  <2>4. img' \in Image
    <3>1. [img EXCEPT ![c] = Eoc] \in Image BY <2>2, ImageExcept
    <3>2. last \in Clusters BY <2>3, ChainIsClusters
    <3> QED BY <2>3, <3>1, <3>2, ImageExcept
  <2>5. op' \in Operations /\ op'.c = c BY <1>7 DEF Grow, Operations, Files
  <2>6. EvoOK' BY <2>4, <2>5 DEF EvoOK, CachedImage
  <2> QED BY <1>0, <2>1, <2>6 DEF Types
<1>8. ASSUME NEW k \in Copies, WriteFat(k) PROVE Types'
  <2>1. img \in Image BY <1>0, <1>8 DEF WriteFat, EvoOK
  <2>2. CardOK' /\ GuardOK' /\ boots' = boots
    BY <1>8, <2>1, TypesBeginMerge, TypesMergeFails DEF WriteFat
  <2>3. op' = [op EXCEPT !.fats = @ \ {k}] /\ img' = img BY <1>8 DEF WriteFat
  <2>4. EvoOK' BY <1>0, <2>1, <2>3 DEF EvoOK, Operations
  <2> QED BY <1>0, <2>2, <2>4 DEF Types
<1> QED BY <1>1, <1>2, <1>3, <1>4, <1>5, <1>6, <1>7, <1>8 DEF Driver

\* The firmware's own use of the card, and a restart.
LEMMA WindowIs ==
    ASSUME Types
    PROVE  Window \in Image /\ (NoStaleSector => Window = fat[1])
BY Constants DEF Types, CardOK, Window, CachedImage, NoStaleSector

LEMMA TypesFirmware == ASSUME Types, SaveSettings \/ UseCard \/ Restart PROVE Types'
<1> USE Constants
<1>0. CardOK /\ GuardOK /\ EvoOK /\ boots \in 1..MaxBoots BY DEF Types
<1>1. CASE SaveSettings
  <2> DEFINE old == Chain(Window, settings)
             cut == Cleared(Window, old)
             free == {c \in Clusters : cut[c] = Free}
             new(c) == [d \in Clusters |-> IF d = c THEN Eoc ELSE cut[d]]
  <2>1. PICK c \in free \cup {Free} :
          /\ fat' = [k \in Copies |-> new(c)] /\ win' \in {new(c), NoCopy}
          /\ settings' = c
          /\ host' = [d \in Clusters |-> IF d = c THEN Eoc ELSE IF d \in old THEN Free ELSE host[d]]
          /\ spoilt' = spoilt \ (old \cup {c})
    BY <1>1 DEF SaveSettings, WriteAnew
  <2>2. cut \in Image BY WindowIs, ClearedIs
  <2>3. c \in {Free} \cup Clusters OBVIOUS
  <2> HIDE DEF cut, free, old
  <2>4. new(c) \in Image BY <2>2 DEF Image
  <2> HIDE DEF new
  <2>5. CardOK'
    <3>1. fat' \in [Copies -> Image] /\ win' \in CachedImage BY <2>1, <2>4 DEF CachedImage
    <3>2. host' \in [Clusters -> {Free, Eoc}] BY <1>0, <2>1 DEF CardOK
    <3>3. spoilt' \subseteq Clusters /\ settings' \in {Free} \cup Clusters
      BY <1>0, <2>1, <2>3 DEF CardOK
    <3>4. sd' = sd BY <1>1 DEF SaveSettings, WriteAnew
    <3> QED BY <1>0, <3>1, <3>2, <3>3, <3>4 DEF CardOK
  <2>6. GuardOK' /\ EvoOK' /\ boots' = boots
    BY <1>0, <1>1 DEF SaveSettings, WriteAnew, GuardOK, EvoOK, guardVars, evoVars
  <2> QED BY <1>0, <2>5, <2>6 DEF Types
<1>2. CASE UseCard
  <2>1. CardOK' BY <1>0, <1>2, WindowIs DEF UseCard, CardOK, cardVars, CachedImage
  <2>2. GuardOK' /\ EvoOK' /\ boots' = boots
    BY <1>0, <1>2 DEF UseCard, GuardOK, EvoOK, guardVars, evoVars
  <2> QED BY <1>0, <2>1, <2>2 DEF Types
<1>3. CASE Restart
  <2>1. CardOK' BY <1>0, <1>3 DEF Restart, CardOK, cardVars, CachedImage
  <2>2. GuardOK'
    <3>1. Sorted(ext)' BY <1>3, EmptySeq DEF Restart, Sorted
    <3>2. walk' \in Walks BY <1>3 DEF Restart, NoWalk, Walks, Free
    <3>3. wr' \in Merges BY <1>3 DEF Restart, NoWrite, Merges, CachedImage
    <3> QED BY <1>3, <3>1, <3>2, <3>3 DEF Restart, GuardOK, CachedImage
  <2>3. EvoOK' BY <1>3 DEF Restart, EvoOK, NoOp, Operations, CachedImage, Free
  <2>4. boots' \in 1..MaxBoots BY <1>0, <1>3, CardAssumption DEF Restart
  <2> QED BY <2>1, <2>2, <2>3, <2>4 DEF Types
<1> QED BY <1>1, <1>2, <1>3

LEMMA TypesNext == Types /\ [Next]_vars => Types'
<1> SUFFICES ASSUME Types, [Next]_vars PROVE Types' OBVIOUS
<1>1. CASE UNCHANGED vars
  BY <1>1 DEF Types, CardOK, GuardOK, EvoOK, vars, cardVars, guardVars, evoVars
<1> QED BY <1>1, TypesGuard, TypesAnyWrite, TypesDriver, TypesFirmware DEF Next

\* The variables of the virtual SD card keep their types, and its runs stay
\* sorted and apart, whatever the Evo and the firmware write.
THEOREM TypeCorrect == Spec => []TypeOK
<1>1. Spec => []Types BY TypesInit, TypesNext, PTL DEF Spec
<1> QED BY <1>1, TypesAreOK, PTL

-----------------------------------------------------------------------------
(* The table of runs.                                                      *)

\* All a step does to the table.
LEMMA RunsStep ==
    ASSUME [Next]_vars
    PROVE  \/ ext' \in {ext, <<>>}
           \/ \E c \in Clusters : ext' \in {ext_add(ext, c), ext_remove(ext, c)}
<1> USE DEF cardVars, guardVars
<1>1. CASE Guard
  <2>1. CASE NoteCluster BY <2>1 DEF NoteCluster, ChainGoesOn
  <2>2. CASE MergeEntry BY <2>2 DEF MergeEntry, Renoted
  <2>3. CASE Scan \/ ScanFails \/ NextEntry \/ WalkEnds \/ EndMerge
    BY <2>3 DEF Scan, ScanFails, NextEntry, WalkEnds, EndMerge
  <2> QED BY <1>1, <2>1, <2>2, <2>3 DEF Guard
<1>2. CASE AnyWrite
  BY <1>2 DEF AnyWrite, BeginMerge, MergeFails, DataWrite, DataRefused, DataAsked
<1>3. CASE Driver
  BY <1>3 DEF Driver, Mount, ReadFat, WriteData, WriteDir, Done, Delete, Create, Grow, WriteFat,
              BeginMerge, MergeFails, DataWrite, DataRefused, DataAsked
<1>4. CASE UseCard \/ SaveSettings \/ Restart \/ UNCHANGED vars
  BY <1>4 DEF UseCard, SaveSettings, WriteAnew, Restart, vars
<1> QED BY <1>1, <1>2, <1>3, <1>4 DEF Next

LEMMA RunsFitNext ==
    ASSUME Types, Len(ext) <= VSD_EXTENTS, [Next]_vars
    PROVE  Len(ext') <= VSD_EXTENTS
<1>1. Sorted(ext) BY DEF Types, GuardOK
<1>2. Len(<<>>) <= VSD_EXTENTS BY EmptySeq, ExtentsAssumption
<1>3. \A c \in Clusters : /\ Len(ext_add(ext, c)) <= VSD_EXTENTS
                          /\ Len(ext_remove(ext, c)) <= VSD_EXTENTS
  BY <1>1, Constants, TableFits
<1> QED BY <1>2, <1>3, RunsStep

(* Whatever is noted and forgotten in whatever order, by a walk or by the  *)
(* Evo's writes of the FAT: the table stays sorted, its runs apart and     *)
(* within its size, and ext_find's halving finds the run of every cluster  *)
(* (ext_find, ext_add and ext_remove, vsd.c:118-190).                      *)
THEOREM RunsAreSound == Spec => []RunsSound
<1> DEFINE Fits == Len(ext) <= VSD_EXTENTS
<1>1. Init => Fits
  <2>1. Init => ext = <<>> BY DEF Init
  <2> QED BY <2>1, EmptySeq, ExtentsAssumption
<1>2. Types /\ Fits /\ [Next]_vars => Fits' BY RunsFitNext
<1>3. Types /\ Fits => RunsSound
  <2> SUFFICES ASSUME Types, Fits PROVE RunsSound OBVIOUS
  <2>1. Sorted(ext) BY DEF Types, GuardOK
  <2>2. 0..n_fatent \subseteq Nat BY Constants
  <2> QED BY <2>1, <2>2, FindsLastRun DEF RunsSound
<1> HIDE DEF Fits
<1> QED BY <1>1, <1>2, <1>3, TypesInit, TypesNext, PTL DEF Spec

\* Whatever is noted is a cluster of the card.
NotedOnCard == \A x \in Nat : Noted(ext, x) => x \in Clusters

LEMMA NotedOnCardNext ==
    ASSUME Types, NotedOnCard, [Next]_vars
    PROVE  NotedOnCard'
<1>1. Sorted(ext) BY DEF Types, GuardOK
<1>2. ~Noted(<<>>, 0) /\ \A x \in Nat : ~Noted(<<>>, x) BY EmptySeq DEF Noted
<1>3. ASSUME NEW c \in Clusters, ext' \in {ext_add(ext, c), ext_remove(ext, c)}
      PROVE  NotedOnCard'
  <2>1. c \in Nat BY Constants
  <2>2. \A x \in Nat : /\ Noted(ext_add(ext, c), x) => Noted(ext, x) \/ x = c
                       /\ Noted(ext_remove(ext, c), x) => Noted(ext, x)
    BY <1>1, <2>1, AddNotes, RemoveForgets
  <2>3. \A x \in Nat : Noted(ext', x) => Noted(ext, x) \/ x = c BY <1>3, <2>2
  <2>4. Clusters' = Clusters BY DEF Clusters
  <2>5. \A x \in Nat : Noted(ext', x) => x \in Clusters BY <2>3 DEF NotedOnCard
  <2> QED BY <2>4, <2>5 DEF NotedOnCard
<1>4. CASE ext' \in {ext, <<>>} BY <1>2, <1>4 DEF NotedOnCard, Clusters
<1> QED BY <1>3, <1>4, RunsStep

(* On a card with no more FAT entries than twice the table's slots a slot  *)
(* is always left, over any number of starts: no cluster goes unnoted and  *)
(* no freed one stays noted for want of one (vsd.c:177-178).               *)
THEOREM SlotsSuffice ==
    n_fatent <= 2 * VSD_EXTENTS => (Spec => [](Len(ext) < VSD_EXTENTS))
<1> SUFFICES ASSUME n_fatent <= 2 * VSD_EXTENTS PROVE Spec => [](Len(ext) < VSD_EXTENTS)
  OBVIOUS
<1>1. Init => NotedOnCard
  <2>1. Init => ext = <<>> BY DEF Init
  <2>2. \A x \in Nat : ~Noted(<<>>, x) BY EmptySeq DEF Noted
  <2> QED BY <2>1, <2>2 DEF NotedOnCard
<1>2. Types /\ NotedOnCard /\ [Next]_vars => NotedOnCard' BY NotedOnCardNext
<1>3. Types /\ NotedOnCard => Len(ext) < VSD_EXTENTS
  <2> SUFFICES ASSUME Types, NotedOnCard PROVE Len(ext) < VSD_EXTENTS OBVIOUS
  <2>1. Sorted(ext) BY DEF Types, GuardOK
  <2>2. n_fatent - 1 \in Nat /\ n_fatent \in Nat /\ VSD_EXTENTS \in Nat
    BY CardAssumption, ExtentsAssumption
  <2>3. \A x \in Nat : Noted(ext, x) => x \in 2..(n_fatent - 1) BY DEF NotedOnCard, Clusters
  <2>4. 2 * Len(ext) <= n_fatent - 1 BY <2>1, <2>2, <2>3, RunsAndGaps
  <2>5. Len(ext) \in Nat BY <2>1, LenProperties DEF Sorted
  <2> QED BY <2>2, <2>4, <2>5
<1> QED BY <1>1, <1>2, <1>3, TypesInit, TypesNext, PTL DEF Spec

-----------------------------------------------------------------------------
(* No stale sector.                                                        *)

\* Steps that leave the card's FAT and FatFs's window alone, and fill the
\* cache from the card.
LEMMA NoStaleFilled ==
    ASSUME Types, NoStaleSector, fat' = fat, win' = win,
           \A j \in Copies : fc'[j] \in {NoCopy, fat[j]}
    PROVE  NoStaleSector'
BY DEF NoStaleSector

LEMMA NoStaleDataAsked ==
    ASSUME Types, NoStaleSector, NEW c \in Clusters, DataAsked(c)
    PROVE  NoStaleSector' /\ \A j \in Copies : fc'[j] \in {NoCopy, fat[j]}
<1> USE Constants
<1>1. /\ Kept \in [Copies -> CachedImage] /\ fat \in [Copies -> Image]
      /\ \A j \in Copies : Kept[j] \in {NoCopy, fat[j]}
  BY KeptIs DEF Types, CardOK, GuardOK
<1>2. \A j \in Copies : FatSec(Kept, 1)[j] \in {NoCopy, fat[j]} BY <1>1, FatSecIs
<1>3. fc' \in {Kept, FatSec(Kept, 1)} /\ fat' = fat /\ win' = win BY DEF DataAsked
<1>4. \A j \in Copies : fc'[j] \in {NoCopy, fat[j]} BY <1>1, <1>2, <1>3
<1> QED BY <1>3, <1>4, NoStaleFilled

LEMMA NoStaleNext ==
    ASSUME Types, NoStaleSector, [Next]_vars
    PROVE  NoStaleSector'
<1> USE Constants
<1>0. /\ fat \in [Copies -> Image] /\ fc \in [Copies -> CachedImage] /\ others \in BOOLEAN
      /\ Kept \in [Copies -> CachedImage]
      /\ \A j \in Copies : Kept[j] \in {NoCopy, fat[j]}
  BY KeptIs DEF Types, CardOK, GuardOK
<1>1. CASE Guard
  <2>1. CASE Scan BY <2>1 DEF Scan, NoStaleSector, cardVars
  <2>2. CASE ScanFails BY <2>2 DEF ScanFails, NoStaleSector, cardVars
  <2>3. CASE NoteCluster
    <3>1. fat' = fat /\ win' = win /\ others' = others /\ fc' \in {fc, FatSec(fc, 1)}
      BY <2>3 DEF NoteCluster, cardVars
    <3>2. ~others => \A j \in Copies : fc[j] \in {NoCopy, fat[j]} BY DEF NoStaleSector
    <3>3. ~others => \A j \in Copies : FatSec(fc, 1)[j] \in {NoCopy, fat[j]} BY <1>0, <3>2, FatSecIs
    <3> QED BY <3>1, <3>2, <3>3 DEF NoStaleSector
  <2>4. CASE NextEntry BY <2>4 DEF NextEntry, NoStaleSector, cardVars
  <2>5. CASE WalkEnds BY <2>5 DEF WalkEnds, NoStaleSector, cardVars
  <2>6. CASE MergeEntry BY <2>6 DEF MergeEntry, NoStaleSector, cardVars
  <2>7. CASE EndMerge
    <3>1. CASE UNCHANGED <<fat, fc, win, others>> BY <3>1 DEF NoStaleSector
    <3>2. CASE /\ fat' = [fat EXCEPT ![wr.k] = wr.old] /\ fc' = [fc EXCEPT ![wr.k] = wr.old]
               /\ win' = IF wr.k = 1 THEN NoCopy ELSE win
               /\ others' = others
      <4>1. \A j \in Copies : fc[j] \in {NoCopy, fat[j]} => fc'[j] \in {NoCopy, fat'[j]}
        BY <1>0, <3>2
      <4>2. win' \in {NoCopy, fat'[1]} BY <1>0, <3>2 DEF NoStaleSector
      <4> QED BY <3>2, <4>1, <4>2 DEF NoStaleSector
    <3> QED BY <2>7, <3>1, <3>2 DEF EndMerge
  <2> QED BY <1>1, <2>1, <2>2, <2>3, <2>4, <2>5, <2>6, <2>7 DEF Guard
<1>2. ASSUME NEW k \in Copies, NEW b, BeginMerge(k, b) PROVE NoStaleSector'
  <2>1. /\ FatSec(Kept, k) \in [Copies -> CachedImage]
        /\ \A j \in Copies : FatSec(Kept, k)[j] \in {NoCopy, fat[j]}
    BY <1>0, FatSecIs
  <2>2. \A j \in Copies : FatSec(FatSec(Kept, k), 1)[j] \in {NoCopy, fat[j]} BY <1>0, <2>1, FatSecIs
  <2>3. fat' = fat /\ win' = win /\ fc' = FatSec(FatSec(Kept, k), 1)
    BY <1>2 DEF BeginMerge, cardVars
  <2> QED BY <2>2, <2>3, NoStaleFilled
<1>3. ASSUME NEW k \in Copies, MergeFails(k) PROVE NoStaleSector'
  <2>1. \A j \in Copies : FatSec(Kept, k)[j] \in {NoCopy, fat[j]} BY <1>0, FatSecIs
  <2>2. fat' = fat /\ win' = win /\ fc' \in {Kept, FatSec(Kept, k)} BY <1>3 DEF MergeFails, cardVars
  <2>3. \A j \in Copies : fc'[j] \in {NoCopy, fat[j]} BY <1>0, <2>1, <2>2
  <2> QED BY <2>2, <2>3, NoStaleFilled
<1>4. CASE AnyWrite
  BY <1>2, <1>3, <1>4, NoStaleDataAsked DEF AnyWrite, DataWrite, DataRefused
<1>5. CASE Driver
  <2>1. CASE Mount BY <1>0, <2>1, NoStaleFilled DEF Mount, ReadFat, cardVars
  <2>2. CASE WriteData
    <3>1. op.c \in Clusters BY <2>2 DEF WriteData, Types, EvoOK
    <3> QED BY <2>2, <3>1, NoStaleDataAsked DEF WriteData, DataWrite, DataRefused
  <2>3. CASE WriteDir BY <2>3, NoStaleDataAsked DEF WriteDir, DataWrite
  <2>4. CASE Done BY <2>4 DEF Done, NoStaleSector, cardVars, guardVars
  <2>5. ASSUME NEW f \in Files, Delete(f) PROVE NoStaleSector'
    BY <2>5 DEF Delete, NoStaleSector, cardVars, guardVars
  <2>6. ASSUME NEW f \in Files, NEW c \in Clusters, Create(f, c) PROVE NoStaleSector'
    BY <2>6 DEF Create, NoStaleSector, cardVars, guardVars
  <2>7. ASSUME NEW f \in Files, NEW c \in Clusters, Grow(f, c) PROVE NoStaleSector'
    BY <2>7 DEF Grow, NoStaleSector, cardVars, guardVars
  <2>8. ASSUME NEW k \in Copies, WriteFat(k) PROVE NoStaleSector'
    BY <1>2, <1>3, <2>8 DEF WriteFat
  <2> QED BY <1>5, <2>1, <2>2, <2>3, <2>4, <2>5, <2>6, <2>7, <2>8 DEF Driver
<1>6. CASE UseCard BY <1>6, WindowIs DEF UseCard, NoStaleSector, cardVars
<1>7. CASE SaveSettings
  <2>1. others' = TRUE /\ win' \in {NoCopy, fat'[1]} BY <1>7 DEF SaveSettings, WriteAnew
  <2> QED BY <2>1 DEF NoStaleSector
<1>8. CASE Restart BY <1>8 DEF Restart, NoStaleSector, cardVars
<1>9. CASE UNCHANGED vars BY <1>9 DEF NoStaleSector, vars, cardVars, guardVars
<1> QED BY <1>1, <1>4, <1>5, <1>6, <1>7, <1>8, <1>9 DEF Next

\* Neither file system acts on a FAT sector the other has written since it
\* read it (vsd.c's lock and card_write), on any card.
THEOREM SectorsFresh == Spec => []NoStaleSector
<1>1. Init => NoStaleSector BY DEF Init, NoStaleSector
<1>2. Types /\ NoStaleSector /\ [Next]_vars => NoStaleSector' BY NoStaleNext
<1> QED BY <1>1, <1>2, TypesInit, TypesNext, PTL DEF Spec

-----------------------------------------------------------------------------
(* The rest of the card.                                                   *)

\* A cluster of the Evo's: in use and not the firmware's.
TreeCluster(c) == fat[1][c] # Free /\ host[c] = Free

\* The firmware's clusters keep their entries, and its settings are one
\* cluster.
FirmwareKept ==
    /\ spoilt = {}
    /\ \A c \in Clusters, k \in Copies : host[c] # Free => fat[k][c] = host[c]
    /\ settings # Free => host[settings] = Eoc

\* Until the walk ends, it meets the Evo's clusters only.
WalkApart ==
    vpc \in {"off", "walk"} =>
       /\ \A c \in Clusters : TreeCluster(c) /\ fat[1][c] \in Clusters => TreeCluster(fat[1][c])
       /\ \A f \in Files : sd[f] \in Clusters => TreeCluster(sd[f])
       /\ TreeCluster(sdroot)
       /\ vpc = "walk" => ~others /\ (walk.c \in Clusters => TreeCluster(walk.c))

\* A merge works with the card's sectors, the firmware's entries kept.
MergeKeeps ==
    vpc = "merge" =>
       /\ fc[wr.k] = fat[wr.k] /\ fc[1] = fat[1]
       /\ \A c \in Clusters : host[c] # Free => wr.old[c] = host[c]

\* The runs hold clusters in use only, none of the firmware's.
NotedApart == \A c \in Clusters : Noted(ext, c) => Fat1[c] # Free /\ host[c] = Free

Safe == FirmwareKept /\ WalkApart /\ MergeKeeps /\ NotedApart

LEMMA SafeMeans ==
    ASSUME Types, Safe PROVE RestOfCardSafe /\ InsideIsInUse
<1>1. RestOfCardSafe BY DEF Safe, FirmwareKept, RestOfCardSafe
<1>2. \A c \in Clusters : c \in Nat /\ (inside(ext, c) <=> Noted(ext, c))
  BY Constants, InsideIsNoted DEF Types, GuardOK
<1> QED BY <1>1, <1>2 DEF Safe, NotedApart, InsideIsInUse, Inside

LEMMA NothingNoted == ~\E x \in Nat : Noted(<<>>, x)
<1>1. Len(<<>>) = 0 BY EmptySeq
<1> QED BY <1>1 DEF Noted

LEMMA SafeInit == Init => Safe
<1> SUFFICES ASSUME Init PROVE Safe OBVIOUS
<1> USE Constants
<1>1. FirmwareKept
  <2>1. \A c \in Clusters : InTree(c) => c \notin Own \cup {Settings} BY TreeIs
  <2>2. \A c \in Clusters, k \in Copies : host[c] # Free => fat[k][c] = host[c]
    BY <2>1 DEF Init
  <2> QED BY <2>2 DEF Init, FirmwareKept
<1>2. WalkApart
  <2>1. ASSUME NEW c \in Clusters, InTree(c) PROVE TreeCluster(c)
    <3>1. NextInTree(c) # Free BY NextInTreeIs
    <3>2. c \notin Own \cup {Settings} BY <2>1, TreeIs
    <3> QED BY <2>1, <3>1, <3>2 DEF Init, TreeCluster
  <2>2. ASSUME NEW c \in Clusters, TreeCluster(c), fat[1][c] \in Clusters
        PROVE  TreeCluster(fat[1][c])
    <3>1. c \notin Own \cup {Settings} BY <2>2 DEF Init, TreeCluster
    <3>2. InTree(c) /\ fat[1][c] = NextInTree(c) BY <2>2, <3>1 DEF Init, TreeCluster
    <3>3. InTree(fat[1][c]) BY <2>2, <3>2, NextInTreeIs
    <3> QED BY <2>1, <2>2, <3>3
  <2>3. ASSUME NEW f \in Files, sd[f] \in Clusters PROVE TreeCluster(sd[f])
    <3>1. Tree[f] # <<>> /\ sd[f] = Tree[f][1] BY <2>3 DEF Init
    <3> QED BY <2>1, <2>3, <3>1, TreeStarts
  <2>4. TreeCluster(sdroot) BY <2>1 DEF InTree
  <2>5. vpc = "off" BY DEF Init
  <2> QED BY <2>2, <2>3, <2>4, <2>5 DEF WalkApart
<1>3. MergeKeeps BY DEF Init, MergeKeeps
<1>4. NotedApart
  <2>1. ext = <<>> BY DEF Init
  <2> QED BY <2>1, NothingNoted DEF NotedApart
<1> QED BY <1>1, <1>2, <1>3, <1>4 DEF Safe

\* A step that leaves the card, the runs and the merge alone.
LEMMA SafeStays ==
    ASSUME Safe, UNCHANGED <<fat, sd, host, spoilt, settings, vpc, ext, fc, walk, wr>>,
           vpc = "walk" => others' = others
    PROVE  Safe'
<1>1. FirmwareKept' BY DEF Safe, FirmwareKept
<1>2. WalkApart' BY DEF Safe, WalkApart, TreeCluster
<1>3. MergeKeeps' BY DEF Safe, MergeKeeps
<1>4. NotedApart' BY DEF Safe, NotedApart, Fat1
<1> QED BY <1>1, <1>2, <1>3, <1>4 DEF Safe

\* A step that leaves the card and the runs alone, the walk past and no
\* merge under way.
LEMMA SafeIdle ==
    ASSUME Safe, UNCHANGED <<fat, host, spoilt, settings, ext>>,
           vpc = "idle", vpc' = "idle"
    PROVE  Safe'
<1>1. FirmwareKept' BY DEF Safe, FirmwareKept
<1>2. WalkApart' /\ MergeKeeps' BY DEF WalkApart, MergeKeeps
<1>3. NotedApart' BY DEF Safe, NotedApart, Fat1
<1> QED BY <1>1, <1>2, <1>3 DEF Safe

\* The walk at start.
LEMMA SafeWalk ==
    ASSUME Types, NoStaleSector, Safe,
           Scan \/ ScanFails \/ NoteCluster \/ NextEntry \/ WalkEnds
    PROVE  Safe'
<1> USE Constants
<1>1. FirmwareKept' BY DEF Scan, ScanFails, NoteCluster, NextEntry, WalkEnds, cardVars, Safe, FirmwareKept
<1>2. vpc' # "merge" /\ vpc # "merge" /\ MergeKeeps'
  BY DEF Scan, ScanFails, NoteCluster, NextEntry, WalkEnds, MergeKeeps
<1>3. fat' = fat /\ host' = host /\ sd' = sd
  BY DEF Scan, ScanFails, NoteCluster, NextEntry, WalkEnds, cardVars
<1>4. vpc \in {"off", "walk"} BY DEF Scan, ScanFails, NoteCluster, NextEntry, WalkEnds
<1>5. /\ \A c \in Clusters : TreeCluster(c) /\ fat[1][c] \in Clusters => TreeCluster(fat[1][c])
      /\ \A f \in Files : sd[f] \in Clusters => TreeCluster(sd[f])
      /\ TreeCluster(sdroot)
      /\ vpc = "walk" => ~others /\ (walk.c \in Clusters => TreeCluster(walk.c))
  BY <1>4 DEF Safe, WalkApart
<1>6. \A c \in Clusters : TreeCluster(c)' <=> TreeCluster(c) BY <1>3 DEF TreeCluster
<1>7. NotedApart'
  <2>1. CASE ext' = <<>> BY <2>1, NothingNoted DEF NotedApart
  <2>2. CASE ext' = ext BY <1>2, <1>3, <2>2 DEF Safe, NotedApart, Fat1
  <2>3. CASE NoteCluster
    <3>1. walk.c \in Clusters /\ ext' = ext_add(ext, walk.c) /\ vpc = "walk"
      BY <2>3 DEF NoteCluster, ChainGoesOn
    <3>2. \A x \in Nat : Noted(ext', x) => Noted(ext, x) \/ x = walk.c
      <4>1. Sorted(ext) /\ walk.c \in Nat BY <3>1 DEF Types, GuardOK
      <4> QED BY <3>1, <4>1, AddNotes
    <3>3. TreeCluster(walk.c) BY <1>5, <3>1
    <3>4. \A c \in Clusters : Noted(ext', c) => fat[1][c] # Free /\ host[c] = Free
      BY <1>2, <3>2, <3>3 DEF Safe, NotedApart, Fat1, TreeCluster
    <3> QED BY <1>2, <1>3, <3>4 DEF NotedApart, Fat1
  <2> QED BY <2>1, <2>2, <2>3 DEF Scan, ScanFails, NextEntry, WalkEnds
<1>8. WalkApart'
  <2>1. CASE vpc' \notin {"off", "walk"} BY <2>1 DEF WalkApart
  <2>2. CASE Scan
    <3>1. others' = FALSE /\ walk'.c = sdroot BY <2>2 DEF Scan
    <3> QED BY <1>3, <1>5, <1>6, <3>1 DEF WalkApart, TreeCluster
  <2>3. CASE NoteCluster
    <3>1. /\ walk.c \in Clusters /\ vpc = "walk" /\ others' = others /\ ~others
          /\ walk'.c = FatSec(fc, 1)[1][walk.c] \/ walk'.c = Eoc
      BY <1>5, <2>3 DEF NoteCluster, ChainGoesOn, Types, GuardOK, Walks
    <3>2. FatSec(fc, 1)[1] = fat[1]
      <4>1. fat \in [Copies -> Image] /\ fc \in [Copies -> CachedImage] /\ fc[1] \in {NoCopy, fat[1]}
        BY <3>1 DEF Types, CardOK, GuardOK, NoStaleSector
      <4> QED BY <4>1, FatSecIs
    <3>3. walk'.c \in Clusters => TreeCluster(walk'.c) BY <1>5, <3>1, <3>2
    <3> QED BY <1>3, <1>5, <1>6, <3>1, <3>3 DEF WalkApart, TreeCluster
  <2>4. CASE NextEntry
    <3>1. /\ vpc = "walk" /\ others' = others
          /\ walk.f + 1 \in Files /\ walk'.c = sd[walk.f + 1]
      BY <2>4 DEF NextEntry, Types, GuardOK, Walks, Files
    <3> QED BY <1>3, <1>5, <1>6, <3>1 DEF WalkApart, TreeCluster
  <2>5. CASE ScanFails \/ WalkEnds BY <2>1, <2>5 DEF ScanFails, WalkEnds
  <2> QED BY <2>2, <2>3, <2>4, <2>5
<1> QED BY <1>1, <1>2, <1>7, <1>8 DEF Safe

\* A merge: its start,
LEMMA SafeBeginMerge ==
    ASSUME Types, NoStaleSector, Safe, NEW k \in Copies, NEW b, BeginMerge(k, b)
    PROVE  Safe'
<1> USE Constants
<1>1. /\ fat' = fat /\ host' = host /\ ext' = ext /\ vpc = "idle" /\ vpc' = "merge"
      /\ spoilt' = spoilt /\ settings' = settings
      /\ fc' = FatSec(FatSec(Kept, k), 1) /\ wr'.k = k /\ wr'.old = FatSec(Kept, k)[k]
  BY DEF BeginMerge, cardVars
<1>2. /\ fat \in [Copies -> Image] /\ Kept \in [Copies -> CachedImage]
      /\ \A j \in Copies : Kept[j] \in {NoCopy, fat[j]}
  BY KeptIs DEF Types, CardOK, GuardOK
<1>3. /\ FatSec(Kept, k) \in [Copies -> CachedImage] /\ FatSec(Kept, k)[k] = fat[k]
      /\ \A j \in Copies : FatSec(Kept, k)[j] \in {NoCopy, fat[j]}
  BY <1>2, FatSecIs
<1>4. fc'[1] = fat[1] /\ fc'[k] = fat[k] BY <1>1, <1>2, <1>3, FatSecIs
<1>5. FirmwareKept' BY <1>1 DEF Safe, FirmwareKept
<1>6. WalkApart' BY <1>1 DEF WalkApart
<1>7. MergeKeeps' BY <1>1, <1>3, <1>4 DEF MergeKeeps, Safe, FirmwareKept
<1>8. NotedApart' BY <1>1, <1>3 DEF Safe, NotedApart, Fat1
<1> QED BY <1>5, <1>6, <1>7, <1>8 DEF Safe

\* ... an entry,
LEMMA SafeMergeEntry ==
    ASSUME Types, Safe, Len(ext) < VSD_EXTENTS, MergeEntry
    PROVE  Safe'
<1> USE Constants
<1> DEFINE c == wr.c
           o == wr.old[c]
           n == wr.b[c]
<1>1. /\ vpc = "merge" /\ vpc' = "merge" /\ c \in Clusters /\ c \in Nat /\ Sorted(ext)
      /\ wr.k \in Copies /\ wr.old \in Image /\ wr \in Merges
      /\ UNCHANGED <<fat, host, spoilt, settings, fc>>
  BY DEF MergeEntry, cardVars, Types, GuardOK
<1>2. /\ fc[wr.k] = fat[wr.k] /\ fc[1] = fat[1]
      /\ \A d \in Clusters : host[d] # Free => wr.old[d] = host[d]
  BY <1>1 DEF Safe, MergeKeeps
<1>3. FirmwareKept' BY <1>1 DEF Safe, FirmwareKept
<1>4. WalkApart' BY <1>1 DEF WalkApart
<1>5. CASE wr'.old = wr.old /\ wr'.k = wr.k /\ ext' = ext
  <2>1. MergeKeeps' BY <1>1, <1>2, <1>5 DEF MergeKeeps
  <2>2. NotedApart' BY <1>1, <1>5 DEF Safe, NotedApart, Fat1
  <2> QED BY <1>3, <1>4, <2>1, <2>2 DEF Safe
<1>6. CASE /\ o # n /\ EntryOk(c, o, n)
           /\ wr'.old = [wr.old EXCEPT ![c] = n] /\ wr'.k = wr.k
           /\ ext' = IF wr.k = 1 THEN Renoted(c, o, n) ELSE ext
  <2> HIDE DEF c, o, n
  <2>0. o = wr.old[c] BY DEF c, o
  <2>1. \A d \in Clusters : wr'.old[d] = IF d = c THEN n ELSE wr.old[d]
    BY <1>1, <1>6 DEF Image
  <2>2. host[c] # Free => wr.k > 1 /\ n = host[c]
    <3> SUFFICES ASSUME host[c] # Free PROVE wr.k > 1 /\ n = host[c] OBVIOUS
    <3>1. o = host[c] /\ o # Free BY <1>1, <1>2, <2>0
    <3>2. ~inside(ext, c)
      <4>1. ~Noted(ext, c) BY <1>1 DEF Safe, NotedApart
      <4> QED BY <1>1, <4>1, InsideIsNoted
    <3>3. wr.k > 1 /\ n = fat[1][c] BY <1>2, <1>6, <3>1, <3>2 DEF EntryOk
    <3> QED BY <1>1, <3>3 DEF Safe, FirmwareKept
  <2>3. MergeKeeps' BY <1>1, <1>2, <1>6, <2>1, <2>2 DEF MergeKeeps
  <2>4. CASE wr.k # 1
    <3>1. NotedApart' BY <1>1, <1>6, <2>4 DEF Safe, NotedApart, Fat1
    <3> QED BY <1>3, <1>4, <2>3, <3>1 DEF Safe
  <2>5. CASE wr.k = 1
    <3>1. \A d \in Clusters : Noted(ext, d) => wr.old[d] # Free /\ host[d] = Free
      BY <1>1, <2>5 DEF Safe, NotedApart, Fat1
    <3>2. host[c] = Free BY <2>2, <2>5
    <3>3. ext' = Renoted(c, o, n) BY <1>6, <2>5
    <3>4. ASSUME NEW d \in Clusters, Noted(ext', d) PROVE wr'.old[d] # Free /\ host[d] = Free
      <4>1. CASE n = Free
        <5>1. ext' = ext_remove(ext, c) BY <3>3, <4>1 DEF Renoted
        <5>2. Noted(ext, d) /\ d # c BY <1>1, <3>4, <5>1, RemoveForgets
        <5> QED BY <2>1, <3>1, <5>2
      <4>2. CASE n # Free
        <5>1. ext' \in {ext, ext_add(ext, c)} BY <3>3, <4>2 DEF Renoted
        <5>2. Noted(ext, d) \/ d = c
          <6>1. CASE ext' = ext BY <3>4, <6>1
          <6>2. CASE ext' = ext_add(ext, c) BY <1>1, <3>4, <6>2, AddNotes
          <6> QED BY <5>1, <6>1, <6>2
        <5> QED BY <2>1, <3>1, <3>2, <4>2, <5>2
      <4> QED BY <4>1, <4>2
    <3>5. NotedApart' BY <1>1, <1>6, <2>5, <3>4 DEF NotedApart, Fat1
    <3> QED BY <1>3, <1>4, <2>3, <3>5 DEF Safe
  <2> QED BY <2>4, <2>5
<1> QED
  <2>1. wr' = [wr EXCEPT !.old[c] = n, !.c = c + 1] => /\ wr'.old = [wr.old EXCEPT ![c] = n]
                                                       /\ wr'.k = wr.k
    BY <1>1 DEF Merges
  <2>2. wr' = [wr EXCEPT !.c = c + 1] => wr'.old = wr.old /\ wr'.k = wr.k
    BY <1>1 DEF Merges
  <2> QED BY <1>5, <1>6, <2>1, <2>2 DEF MergeEntry

\* ... and its end.
LEMMA SafeEndMerge ==
    ASSUME Types, Safe, EndMerge
    PROVE  Safe'
<1> USE Constants
<1>1. /\ vpc = "merge" /\ vpc' = "idle" /\ wr.k \in Copies /\ fat \in [Copies -> Image]
      /\ UNCHANGED <<host, spoilt, settings, ext>>
      /\ fc[wr.k] = fat[wr.k]
      /\ \A c \in Clusters : host[c] # Free => wr.old[c] = host[c]
  BY DEF EndMerge, Types, CardOK, GuardOK, Safe, MergeKeeps
<1>2. fat' = [fat EXCEPT ![wr.k] = wr.old] BY <1>1 DEF EndMerge
<1>3. \A j \in Copies : fat'[j] = IF j = wr.k THEN wr.old ELSE fat[j] BY <1>1, <1>2
<1>4. FirmwareKept' BY <1>1, <1>3 DEF Safe, FirmwareKept
<1>5. WalkApart' /\ MergeKeeps' BY <1>1 DEF WalkApart, MergeKeeps
<1>6. Fat1' = Fat1 BY <1>1, <1>3 DEF Fat1
<1>7. NotedApart' BY <1>1, <1>6 DEF Safe, NotedApart
<1> QED BY <1>4, <1>5, <1>7 DEF Safe

\* A write of a cluster's data passes only where the firmware has nothing.
LEMMA SafeData ==
    ASSUME Types, NoStaleSector, Safe, NEW c \in Clusters,
           DataRefused(c) \/ \E d : DataWrite(c, d)
    PROVE  Safe'
<1> USE Constants
<1>1. /\ DataAsked(c) /\ vpc = "idle" /\ vpc' = "idle"
      /\ UNCHANGED <<fat, host, settings, ext>>
  BY DEF DataRefused, DataWrite, DataAsked
<1>2. \A j \in Copies : fc'[j] \in {NoCopy, fat[j]} BY <1>1, NoStaleDataAsked
<1>3. Passes(c, fc') => host[c] = Free
  <2>1. inside(ext, c) => host[c] = Free
    <3>1. inside(ext, c) <=> Noted(ext, c) BY InsideIsNoted DEF Types, GuardOK
    <3> QED BY <3>1 DEF Safe, NotedApart
  <2>2. fc'[1] # NoCopy /\ fc'[1][c] = Free => host[c] = Free
    <3>1. fc'[1] # NoCopy => fc'[1] = fat[1] BY <1>2
    <3> QED BY <3>1 DEF Safe, FirmwareKept
  <2> QED BY <2>1, <2>2 DEF Passes
<1>4. spoilt' = spoilt BY <1>3 DEF DataRefused, DataWrite
<1> QED BY <1>1, <1>4, SafeIdle

\* The settings are cut and written to a free cluster: what is the Evo's
\* stays so, and keeps its entries.
LEMMA SettingsStep ==
    ASSUME Types, NoStaleSector, Safe, SaveSettings
    PROVE  /\ FirmwareKept'
           /\ \A d \in Clusters :
                 /\ fat'[1][d] # Free /\ host'[d] = Free => TreeCluster(d)
                 /\ TreeCluster(d) => /\ fat'[1][d] # Free /\ host'[d] = Free
                                      /\ fat'[1][d] = fat[1][d]
<1> USE Constants
<1> DEFINE old == Chain(Window, settings)
           cut == Cleared(Window, old)
           free == {c \in Clusters : cut[c] = Free}
           After(d) == fat'[1][d] # Free /\ host'[d] = Free
           new(c) == [d \in Clusters |-> IF d = c THEN Eoc ELSE cut[d]]
<1>1. PICK c \in free \cup {Free} :
        /\ fat' = [k \in Copies |-> new(c)] /\ settings' = c
        /\ host' = [d \in Clusters |-> IF d = c THEN Eoc ELSE IF d \in old THEN Free ELSE host[d]]
        /\ spoilt' = spoilt \ (old \cup {c})
  BY DEF SaveSettings, WriteAnew
<1>2. UNCHANGED <<sd, vpc, ext, fc, walk, wr>> /\ vpc \notin {"walk", "merge"}
  BY DEF SaveSettings, Unlocked, WriteAnew, guardVars
<1>3. Window = fat[1] /\ fat[1] \in Image /\ settings \in {Free} \cup Clusters
      /\ host \in [Clusters -> {Free, Eoc}]
  BY WindowIs DEF Types, CardOK
<1>4. /\ spoilt = {}
      /\ settings # Free => host[settings] = Eoc
      /\ \A d \in Clusters, k \in Copies : host[d] # Free => fat[k][d] = host[d]
  BY DEF Safe, FirmwareKept
<1>5. \A d \in old : d = settings /\ host[d] = Eoc
  <2>1. CASE settings = Free BY <2>1 DEF Chain
  <2>2. CASE settings \in Clusters
    <3>1. fat[1][settings] = Eoc /\ host[settings] = Eoc BY <1>4, <2>2
    <3>2. Follows(Window, {settings}) BY <1>3, <3>1 DEF Follows
    <3>3. \A d \in old : d \in {settings} BY <2>2, <3>2 DEF Chain
    <3> QED BY <3>1, <3>3
  <2> QED BY <1>3, <2>1, <2>2
<1>6. \A d \in Clusters : cut[d] = IF d \in old THEN Free ELSE fat[1][d]
  BY <1>3 DEF Cleared
<1>7. c = Free \/ (c \in Clusters /\ (c \in old \/ fat[1][c] = Free)) BY <1>6
<1> HIDE DEF old, cut, free
<1>8. \A d \in Clusters : /\ fat'[1][d] = new(c)[d]
                          /\ \A k \in Copies : fat'[k][d] = new(c)[d]
  BY <1>1
<1>9. \A d \in Clusters : new(c)[d] = IF d = c THEN Eoc ELSE IF d \in old THEN Free ELSE fat[1][d]
  BY <1>6
<1>10. \A d \in Clusters : host'[d] = IF d = c THEN Eoc ELSE IF d \in old THEN Free ELSE host[d]
  BY <1>1
<1> HIDE DEF new
<1>11. FirmwareKept'
  <2>1. spoilt' = {} BY <1>1, <1>4
  <2>2. ASSUME NEW d \in Clusters, NEW k \in Copies, host'[d] # Free
        PROVE  fat'[k][d] = host'[d]
    <3>1. fat'[k][d] = new(c)[d] BY <1>8
    <3>2. CASE d = c BY <1>9, <1>10, <3>1, <3>2
    <3>3. CASE d # c
      <4>1. d \notin old /\ host'[d] = host[d] BY <1>10, <2>2, <3>3
      <4>2. fat'[k][d] = fat[1][d] BY <1>9, <3>1, <3>3, <4>1
      <4> QED BY <1>4, <2>2, <4>1, <4>2
    <3> QED BY <3>2, <3>3
  <2>3. settings' # Free => host'[settings'] = Eoc BY <1>1, <1>7, <1>10
  <2> QED BY <2>1, <2>2, <2>3 DEF FirmwareKept
<1>12. \A d \in Clusters : TreeCluster(d) => fat'[1][d] = fat[1][d] /\ After(d)
  <2> SUFFICES ASSUME NEW d \in Clusters, TreeCluster(d)
               PROVE  fat'[1][d] = fat[1][d] /\ After(d)
    OBVIOUS
  <2>1. fat[1][d] # Free /\ host[d] = Free BY DEF TreeCluster
  <2>2. d \notin old BY <1>5, <2>1
  <2>3. d # c BY <1>7, <2>1, <2>2
  <2> QED BY <1>8, <1>9, <1>10, <2>1, <2>2, <2>3
<1>13. \A d \in Clusters : After(d) => TreeCluster(d)
  <2> SUFFICES ASSUME NEW d \in Clusters, fat'[1][d] # Free, host'[d] = Free
               PROVE  TreeCluster(d)
    OBVIOUS
  <2>1. d # c /\ d \notin old BY <1>8, <1>9, <1>10
  <2> QED BY <1>8, <1>9, <1>10, <2>1 DEF TreeCluster
<1> QED BY <1>11, <1>12, <1>13

LEMMA SafeSettings ==
    ASSUME Types, NoStaleSector, Safe, SaveSettings
    PROVE  Safe'
<1> USE Constants
<1> DEFINE After(d) == fat'[1][d] # Free /\ host'[d] = Free
<1>1. UNCHANGED <<sd, vpc, ext, fc, walk, wr>> /\ vpc \notin {"walk", "merge"}
  BY DEF SaveSettings, Unlocked, WriteAnew, guardVars
<1>2. /\ FirmwareKept'
      /\ \A d \in Clusters : /\ After(d) => TreeCluster(d)
                             /\ TreeCluster(d) => After(d) /\ fat'[1][d] = fat[1][d]
  BY SettingsStep
<1>3. WalkApart'
  <2>1. CASE vpc # "off" BY <1>1, <2>1 DEF WalkApart
  <2>2. CASE vpc = "off"
    <3>1. /\ \A d \in Clusters : TreeCluster(d) /\ fat[1][d] \in Clusters => TreeCluster(fat[1][d])
          /\ \A f \in Files : sd[f] \in Clusters => TreeCluster(sd[f])
          /\ TreeCluster(sdroot)
      BY <2>2 DEF Safe, WalkApart
    <3> HIDE DEF After
    <3>2. ASSUME NEW d \in Clusters, After(d), fat'[1][d] \in Clusters PROVE After(fat'[1][d])
      <4>1. TreeCluster(d) BY <1>2, <3>2
      <4>2. fat'[1][d] = fat[1][d] BY <1>2, <4>1
      <4>3. TreeCluster(fat[1][d]) BY <3>1, <3>2, <4>1, <4>2
      <4> QED BY <1>2, <3>2, <4>2, <4>3
    <3>3. \A f \in Files : sd[f] \in Clusters => After(sd[f]) BY <1>2, <3>1
    <3>4. After(sdroot) BY <1>2, <3>1
    <3> QED BY <1>1, <2>2, <3>2, <3>3, <3>4 DEF WalkApart, TreeCluster, After
  <2> QED BY <2>1, <2>2
<1>4. MergeKeeps' BY <1>1 DEF MergeKeeps
<1>5. NotedApart'
  <2>1. \A d \in Clusters : Noted(ext, d) => TreeCluster(d)
    BY <1>1 DEF Safe, NotedApart, Fat1, TreeCluster
  <2> HIDE DEF After
  <2>2. \A d \in Clusters : Noted(ext, d) => After(d) BY <1>2, <2>1
  <2> QED BY <1>1, <2>2 DEF NotedApart, Fat1, After
<1> QED BY <1>2, <1>3, <1>4, <1>5 DEF Safe

LEMMA SafeNext ==
    ASSUME Types, NoStaleSector, Safe, Len(ext) < VSD_EXTENTS, boots = 1, boots' = 1, [Next]_vars
    PROVE  Safe'
<1> USE Constants
<1>1. CASE Guard
  BY <1>1, SafeWalk, SafeMergeEntry, SafeEndMerge DEF Guard
<1>2. ASSUME NEW k \in Copies, MergeFails(k) PROVE Safe'
  BY <1>2, SafeIdle DEF MergeFails, cardVars
<1>3. CASE AnyWrite
  BY <1>2, <1>3, SafeBeginMerge, SafeData DEF AnyWrite
<1>4. CASE Driver
  <2>1. CASE Mount BY <2>1, SafeIdle DEF Mount, ReadFat, cardVars
  <2>2. CASE WriteData
    <3>1. op.c \in Clusters BY <2>2 DEF WriteData, Types, EvoOK
    <3> QED BY <2>2, <3>1, SafeData DEF WriteData
  <2>3. CASE WriteDir BY <2>3, SafeData DEF WriteDir
  <2>4. CASE Done
    <3>1. UNCHANGED <<cardVars, vpc, guardVars, others>> BY <2>4 DEF Done
    <3> QED BY <3>1, SafeStays DEF cardVars, guardVars
  <2>5. ASSUME NEW f \in Files, Delete(f) PROVE Safe'
    <3>1. UNCHANGED <<cardVars, vpc, guardVars, others>> BY <2>5 DEF Delete
    <3> QED BY <3>1, SafeStays DEF cardVars, guardVars
  <2>6. ASSUME NEW f \in Files, NEW c \in Clusters, Create(f, c) \/ Grow(f, c) PROVE Safe'
    <3>1. UNCHANGED <<cardVars, vpc, guardVars, others>> BY <2>6 DEF Create, Grow
    <3> QED BY <3>1, SafeStays DEF cardVars, guardVars
  <2>7. ASSUME NEW k \in Copies, WriteFat(k) PROVE Safe'
    BY <1>2, <2>7, SafeBeginMerge DEF WriteFat
  <2> QED BY <1>4, <2>1, <2>2, <2>3, <2>4, <2>5, <2>6, <2>7 DEF Driver
<1>5. CASE UseCard
  <2>1. UNCHANGED <<cardVars, vpc, guardVars>> /\ vpc # "walk" BY <1>5 DEF UseCard, Unlocked
  <2> QED BY <2>1, SafeStays DEF cardVars, guardVars
<1>6. CASE SaveSettings BY <1>6, SafeSettings
<1>7. CASE Restart BY <1>7 DEF Restart
<1>8. CASE UNCHANGED vars
  <2>1. UNCHANGED <<cardVars, vpc, guardVars, others>> BY <1>8 DEF vars
  <2> QED BY <2>1, SafeStays DEF cardVars, guardVars
<1> QED BY <1>1, <1>3, <1>4, <1>5, <1>6, <1>7, <1>8 DEF Next

\* Until the Evo is started again, while a slot of the run table is left.
Room == boots = 1 /\ Len(ext) < VSD_EXTENTS

(* Until the Evo is started again, and while a slot of the run table is    *)
(* left, nothing the Evo writes reaches the firmware's files, whatever     *)
(* both write in whatever order: no data of theirs is overwritten and      *)
(* their chains stand in every copy of the FAT (vsd.h:15-22).              *)
THEOREM RestOfCardKept == Spec /\ []Room => [](RestOfCardSafe /\ InsideIsInUse)
<1> DEFINE Inv == Types /\ NoStaleSector /\ Safe
<1>1. Init => Inv
  <2>1. Init => NoStaleSector BY DEF Init, NoStaleSector
  <2> QED BY <2>1, TypesInit, SafeInit
<1>2. Inv /\ Room /\ Room' /\ [Next]_vars => Inv'
  <2> SUFFICES ASSUME Inv, Room, Room', [Next]_vars PROVE Inv' OBVIOUS
  <2> QED BY TypesNext, NoStaleNext, SafeNext DEF Room
<1>3. Inv => RestOfCardSafe /\ InsideIsInUse BY SafeMeans
<1> HIDE DEF Inv
<1> QED BY <1>1, <1>2, <1>3, PTL DEF Spec

-----------------------------------------------------------------------------
(* All of the Evo's clusters are noted.                                    *)

\* A cluster of a file of /evo/SD links to the file's next.
LEMMA NextInTreeOf ==
    ASSUME NEW f \in Files, NEW i \in 1..Len(Tree[f]) - 1
    PROVE  /\ Tree[f][i] \in Clusters /\ Tree[f][i + 1] \in Clusters
           /\ NextInTree(Tree[f][i]) = Tree[f][i + 1]
<1> DEFINE c == Tree[f][i]
           follows(d) == \E g \in Files : \E j \in 1..Len(Tree[g]) - 1 :
                            Tree[g][j] = c /\ Tree[g][j + 1] = d
<1>1. i \in DOMAIN Tree[f] /\ i + 1 \in DOMAIN Tree[f] BY FileIs
<1>2. c \in Clusters /\ Tree[f][i + 1] \in Clusters BY <1>1, FileIs
<1>3. follows(Tree[f][i + 1]) OBVIOUS
<1>4. ASSUME NEW d \in Clusters, follows(d) PROVE d = Tree[f][i + 1]
  <2>1. PICK g \in Files : \E j \in 1..Len(Tree[g]) - 1 : Tree[g][j] = c /\ Tree[g][j + 1] = d
    BY <1>4
  <2>2. PICK j \in 1..Len(Tree[g]) - 1 : Tree[g][j] = c /\ Tree[g][j + 1] = d BY <2>1
  <2>3. j \in DOMAIN Tree[g] BY FileIs
  <2>4. g = f /\ j = i BY <1>1, <2>2, <2>3, CardAssumption
  <2> QED BY <2>2, <2>4
<1>5. NextInTree(c) = CHOOSE d \in Clusters : follows(d) BY <1>2, <1>3 DEF NextInTree
<1> HIDE DEF follows
<1> QED BY <1>2, <1>3, <1>4, <1>5

\* Until the walk is over, /evo/SD is as the Evo found it.
AsFound ==
    vpc \in {"off", "walk"} =>
       /\ \A c \in Clusters : TreeCluster(c) => InTree(c)
       /\ \A c \in Clusters : InTree(c) => TreeCluster(c) /\ fat[1][c] = NextInTree(c)
       /\ \A f \in Files : Tree[f] # <<>> => sd[f] = Tree[f][1]

NotedIn(e) == {c \in Clusters : Noted(e, c)}

\* The walk has noted what the noted clusters lead to and the files it has
\* begun start with, but for the cluster it is at; and its guard is spent on
\* clusters noted.
WalkNotes ==
    vpc = "walk" =>
       /\ \A c \in Clusters : Noted(ext, c) /\ fat[1][c] \in Clusters =>
                                 Noted(ext, fat[1][c]) \/ fat[1][c] = walk.c
       /\ Noted(ext, sdroot) \/ sdroot = walk.c
       /\ \A f \in 1..walk.f : sd[f] \in Clusters => Noted(ext, sd[f]) \/ sd[f] = walk.c
       /\ n_fatent <= walk.guard + Cardinality(NotedIn(ext))

\* Afterwards what is in use and not the firmware's is noted.
AllNoted ==
    vpc \in {"idle", "merge"} =>
       \A c \in Clusters : Fat1[c] # Free /\ host[c] = Free => Noted(ext, c)

Exact == AsFound /\ WalkNotes /\ AllNoted

LEMMA NotedCount ==
    ASSUME NEW e
    PROVE  /\ IsFiniteSet(NotedIn(e)) /\ Cardinality(NotedIn(e)) \in Nat
           /\ Cardinality(NotedIn(e)) < n_fatent
<1> DEFINE n == n_fatent - 1
<1>1. 2 \in Int /\ n \in Int /\ n_fatent \in Nat /\ n_fatent > 2 BY Constants
<1>2. IsFiniteSet(2..n) /\ Cardinality(2..n) = IF 2 > n THEN 0 ELSE n - 2 + 1
  <2> HIDE DEF n
  <2> QED BY <1>1, FS_Interval
<1>3. NotedIn(e) \in SUBSET (2..n) BY DEF NotedIn, Clusters
<1>4. IsFiniteSet(NotedIn(e)) /\ Cardinality(NotedIn(e)) <= Cardinality(2..n)
  <2> HIDE DEF n
  <2> QED BY <1>2, <1>3, FS_Subset
<1>5. Cardinality(NotedIn(e)) \in Nat BY <1>4, FS_CardinalityType
<1>6. Cardinality(2..n) < n_fatent /\ Cardinality(2..n) \in Nat BY <1>1, <1>2
<1> HIDE DEF n
<1> QED BY <1>1, <1>4, <1>5, <1>6

\* So the guard does not run out.
LEMMA GuardLasts ==
    ASSUME Types, WalkNotes, vpc = "walk" PROVE walk.guard > 0
<1>1. walk.guard \in Nat BY Constants DEF Types, GuardOK, Walks
<1>2. n_fatent <= walk.guard + Cardinality(NotedIn(ext)) BY DEF WalkNotes
<1> QED BY <1>1, <1>2, NotedCount, Constants

LEMMA ExactInit == Init => Exact
<1> SUFFICES ASSUME Init PROVE Exact OBVIOUS
<1> USE Constants
<1>1. vpc = "off" /\ \A f \in Files : Tree[f] # <<>> => sd[f] = Tree[f][1] BY DEF Init
<1>2. ASSUME NEW c \in Clusters, TreeCluster(c) PROVE InTree(c)
  <2>1. c \notin Own \cup {Settings} BY <1>2 DEF Init, TreeCluster
  <2> QED BY <1>2, <2>1 DEF Init, TreeCluster
<1>3. ASSUME NEW c \in Clusters, InTree(c) PROVE TreeCluster(c) /\ fat[1][c] = NextInTree(c)
  <2>1. c \notin Own \cup {Settings} BY <1>3, TreeIs
  <2>2. fat[1][c] = NextInTree(c) /\ host[c] = Free BY <1>3, <2>1 DEF Init
  <2> QED BY <2>2, NextInTreeIs DEF TreeCluster
<1> QED BY <1>1, <1>2, <1>3 DEF Exact, AsFound, WalkNotes, AllNoted

LEMMA ExactMeans ==
    ASSUME Types, Safe, Exact PROVE InsideExact
<1>1. \A c \in Clusters : c \in Nat /\ (inside(ext, c) <=> Noted(ext, c))
  BY Constants, InsideIsNoted DEF Types, GuardOK
<1>2. InsideIsAll BY <1>1 DEF Exact, AllNoted, InsideIsAll, Inside
<1> QED BY <1>2, SafeMeans DEF InsideExact

\* What a walk that has ended has noted.
LEMMA WalkFinds ==
    ASSUME Types, AsFound, WalkNotes, vpc = "walk", walk.f = NFiles, ~ChainGoesOn
    PROVE  \A c \in Clusters : InTree(c) => Noted(ext, c)
<1> USE Constants
<1>0. Sorted(ext) BY DEF Types, GuardOK
<1>1. walk.c \in Clusters => Noted(ext, walk.c)
  <2>1. walk.guard > 0 BY GuardLasts
  <2>2. walk.c \in Clusters => inside(ext, walk.c) BY <2>1 DEF ChainGoesOn
  <2> QED BY <1>0, <2>2, InsideIsNoted
<1>2. /\ \A c \in Clusters : Noted(ext, c) /\ fat[1][c] \in Clusters => Noted(ext, fat[1][c])
      /\ Noted(ext, sdroot)
      /\ \A f \in Files : sd[f] \in Clusters => Noted(ext, sd[f])
  BY <1>1 DEF WalkNotes, Files
<1>3. ASSUME NEW f \in Files, NEW i \in DOMAIN Tree[f] PROVE Noted(ext, Tree[f][i])
  <2> DEFINE Missed == {j \in DOMAIN Tree[f] : ~Noted(ext, Tree[f][j])}
  <2>1. DOMAIN Tree[f] = 1..Len(Tree[f]) /\ Len(Tree[f]) \in Nat BY FileIs
  <2>2. Missed \in SUBSET Nat BY <2>1
  <2>3. SUFFICES ASSUME Missed # {} PROVE FALSE OBVIOUS
  <2>4. PICK m \in Missed : \A j \in Missed : m <= j
    <3> HIDE DEF Missed
    <3> QED BY <2>2, <2>3, Least
  <2>5. m \in 1..Len(Tree[f]) /\ ~Noted(ext, Tree[f][m]) BY <2>1, <2>4
  <2>6. CASE m = 1
    <3>1. Tree[f] # <<>> BY <2>5, EmptySeq
    <3>2. sd[f] = Tree[f][1] /\ Tree[f][1] \in Clusters BY <3>1, TreeStarts DEF AsFound
    <3> QED BY <1>2, <2>5, <2>6, <3>2
  <2>7. CASE m # 1
    <3>1. m - 1 \in 1..Len(Tree[f]) - 1 /\ (m - 1) + 1 = m /\ m - 1 \in DOMAIN Tree[f] /\ ~(m <= m - 1)
      BY <2>1, <2>5, <2>7
    <3>2. /\ Tree[f][m - 1] \in Clusters /\ Tree[f][m] \in Clusters
          /\ NextInTree(Tree[f][m - 1]) = Tree[f][m]
      BY <3>1, NextInTreeOf
    <3>3. Noted(ext, Tree[f][m - 1]) BY <2>4, <3>1
    <3>4. InTree(Tree[f][m - 1]) BY <3>1 DEF InTree
    <3>5. fat[1][Tree[f][m - 1]] = Tree[f][m] BY <3>2, <3>4 DEF AsFound
    <3> QED BY <1>2, <2>5, <3>2, <3>3, <3>5
  <2> QED BY <2>6, <2>7
<1> QED BY <1>2, <1>3 DEF InTree

\* The walk at start, if its sectors read.
LEMMA ExactWalk ==
    ASSUME Types, NoStaleSector, Safe, Exact, Len(ext) < VSD_EXTENTS, "walk" \notin CardFaults,
           Scan \/ ScanFails \/ NoteCluster \/ NextEntry \/ WalkEnds
    PROVE  Exact'
<1> USE Constants
<1>1. /\ fat' = fat /\ host' = host /\ sd' = sd /\ vpc \in {"off", "walk"}
      /\ vpc' \in {"walk", "idle"}
  BY DEF Scan, ScanFails, NoteCluster, NextEntry, WalkEnds, cardVars
<1>2. Sorted(ext) BY DEF Types, GuardOK
<1>3. AsFound' BY <1>1 DEF Exact, AsFound, TreeCluster
<1>4. CASE Scan
  <2>1. ext' = <<>> /\ walk'.f = 0 /\ walk'.c = sdroot /\ walk'.guard = n_fatent /\ vpc' = "walk"
    BY <1>4 DEF Scan
  <2>2. n_fatent <= walk'.guard + Cardinality(NotedIn(ext')) BY <2>1, NotedCount
  <2>3. WalkNotes' BY <2>1, <2>2, NothingNoted DEF WalkNotes
  <2> QED BY <1>3, <2>1, <2>3 DEF Exact, AllNoted
<1>5. CASE ScanFails BY <1>5 DEF ScanFails
<1>6. CASE NoteCluster
  <2>1. /\ walk.c \in Clusters /\ ~inside(ext, walk.c) /\ ext' = ext_add(ext, walk.c)
        /\ vpc = "walk" /\ vpc' = "walk" /\ walk \in Walks
    BY <1>6 DEF NoteCluster, ChainGoesOn, Types, GuardOK
  <2>2. FatSec(fc, 1)[1] = fat[1]
    <3>1. ~others BY <2>1 DEF Safe, WalkApart
    <3>2. fat \in [Copies -> Image] /\ fc \in [Copies -> CachedImage] /\ fc[1] \in {NoCopy, fat[1]}
      BY <3>1 DEF Types, CardOK, GuardOK, NoStaleSector
    <3> QED BY <3>2, FatSecIs
  <2>3. walk'.c = fat[1][walk.c] /\ walk'.guard = walk.guard - 1 /\ walk'.f = walk.f
    BY <1>6, <2>1, <2>2 DEF NoteCluster, Walks
  <2>4. ~Noted(ext, walk.c) BY <1>2, <2>1, InsideIsNoted
  <2>5. \A x \in Nat : Noted(ext', x) <=> Noted(ext, x) \/ x = walk.c BY <1>2, <2>1, AddNotes
  <2>6. n_fatent <= walk'.guard + Cardinality(NotedIn(ext'))
    <3>1. NotedIn(ext') = NotedIn(ext) \cup {walk.c} BY <2>1, <2>5 DEF NotedIn
    <3>2. walk.c \notin NotedIn(ext) BY <2>4 DEF NotedIn
    <3>3. Cardinality(NotedIn(ext')) = Cardinality(NotedIn(ext)) + 1
      BY <3>1, <3>2, NotedCount, FS_AddElement
    <3>4. n_fatent <= walk.guard + Cardinality(NotedIn(ext)) BY <2>1 DEF Exact, WalkNotes
    <3>5. walk.guard \in Nat /\ Cardinality(NotedIn(ext)) \in Nat BY <2>1, NotedCount DEF Walks
    <3> QED BY <2>3, <3>3, <3>4, <3>5
  <2>7. \A c \in Clusters : c \in Nat OBVIOUS
  <2>8. ASSUME NEW c \in Clusters, Noted(ext', c), fat[1][c] \in Clusters
        PROVE  Noted(ext', fat[1][c]) \/ fat[1][c] = walk'.c
    <3>1. CASE c = walk.c BY <2>3, <3>1
    <3>2. CASE Noted(ext, c)
      <4>1. Noted(ext, fat[1][c]) \/ fat[1][c] = walk.c BY <2>1, <2>8, <3>2 DEF Exact, WalkNotes
      <4> QED BY <2>5, <2>7, <2>8, <4>1
    <3> QED BY <2>5, <2>7, <2>8, <3>1, <3>2
  <2>9. Noted(ext', sdroot)
    BY <2>1, <2>5, <2>7 DEF Exact, WalkNotes
  <2>10. ASSUME NEW f \in 1..walk.f, sd[f] \in Clusters PROVE Noted(ext', sd[f])
    <3>1. Noted(ext, sd[f]) \/ sd[f] = walk.c BY <2>1, <2>10 DEF Exact, WalkNotes
    <3> QED BY <2>5, <2>7, <2>10, <3>1
  <2>11. WalkNotes' BY <1>1, <2>3, <2>6, <2>8, <2>9, <2>10 DEF WalkNotes
  <2> QED BY <1>3, <2>1, <2>11 DEF Exact, AllNoted
<1>7. CASE NextEntry
  <2>1. /\ vpc = "walk" /\ vpc' = "walk" /\ ext' = ext /\ ~ChainGoesOn
        /\ walk.f \in Nat /\ walk'.f = walk.f + 1 /\ walk'.c = sd[walk.f + 1] /\ walk'.guard = n_fatent
    BY <1>7 DEF NextEntry, Types, GuardOK, Walks
  <2>2. walk.c \in Clusters => Noted(ext, walk.c)
    <3>1. walk.guard > 0 BY <2>1, GuardLasts DEF Exact
    <3>2. walk.c \in Clusters => inside(ext, walk.c) BY <2>1, <3>1 DEF ChainGoesOn
    <3> QED BY <1>2, <3>2, InsideIsNoted
  <2>3. n_fatent <= walk'.guard + Cardinality(NotedIn(ext')) BY <2>1, NotedCount
  <2>4. \A f \in 1..walk.f + 1 : f \in 1..walk.f \/ f = walk.f + 1 BY <2>1
  <2>5. WalkNotes' BY <1>1, <2>1, <2>2, <2>3, <2>4 DEF Exact, WalkNotes
  <2> QED BY <1>3, <2>1, <2>5 DEF Exact, AllNoted
<1>8. CASE WalkEnds
  <2>1. vpc = "walk" /\ vpc' = "idle" /\ walk.f = NFiles /\ ~ChainGoesOn /\ ext' = ext
    BY <1>8 DEF WalkEnds
  <2>2. \A c \in Clusters : TreeCluster(c) => Noted(ext, c)
    BY <2>1, WalkFinds DEF Exact, AsFound
  <2>3. AllNoted' BY <1>1, <2>1, <2>2 DEF AllNoted, Fat1, TreeCluster
  <2> QED BY <1>3, <2>1, <2>3 DEF Exact, WalkNotes
<1> QED BY <1>4, <1>5, <1>6, <1>7, <1>8

\* An entry of a merge.
LEMMA ExactMergeEntry ==
    ASSUME Types, Exact, Len(ext) < VSD_EXTENTS, MergeEntry
    PROVE  Exact'
<1> USE Constants
<1> DEFINE c == wr.c
           o == wr.old[c]
           n == wr.b[c]
<1>1. /\ vpc = "merge" /\ vpc' = "merge" /\ c \in Clusters /\ c \in Nat /\ Sorted(ext)
      /\ wr.k \in Copies /\ wr.k \in Nat /\ wr.old \in Image /\ wr \in Merges
      /\ UNCHANGED <<fat, host>>
  BY DEF MergeEntry, cardVars, Types, GuardOK, Copies
<1>2. AsFound' /\ WalkNotes' BY <1>1 DEF AsFound, WalkNotes
<1>3. CASE wr'.old = wr.old /\ wr'.k = wr.k /\ ext' = ext
  BY <1>1, <1>2, <1>3 DEF Exact, AllNoted, Fat1
<1>4. CASE /\ EntryOk(c, o, n)
           /\ wr'.old = [wr.old EXCEPT ![c] = n] /\ wr'.k = wr.k
           /\ ext' = IF wr.k = 1 THEN Renoted(c, o, n) ELSE ext
  <2> HIDE DEF c, o, n
  <2>1. CASE wr.k # 1 BY <1>1, <1>2, <1>4, <2>1 DEF Exact, AllNoted, Fat1
  <2>2. CASE wr.k = 1
    <3>1. o = Free \/ inside(ext, c) BY <1>4, <2>2 DEF EntryOk
    <3>2. \A d \in Clusters : wr'.old[d] = IF d = c THEN n ELSE wr.old[d] BY <1>1, <1>4 DEF Image
    <3>3. ASSUME NEW d \in Clusters, wr'.old[d] # Free, host[d] = Free PROVE Noted(ext', d)
      <4>1. ext' = Renoted(c, o, n) BY <1>4, <2>2
      <4>2. CASE d # c
        <5>1. Noted(ext, d) BY <1>1, <2>2, <3>2, <3>3, <4>2 DEF Exact, AllNoted, Fat1
        <5>2. ext' \in {ext, ext_add(ext, c), ext_remove(ext, c)} BY <4>1 DEF Renoted
        <5>3. d \in Nat OBVIOUS
        <5>4. CASE ext' = ext BY <5>1, <5>4
        <5>5. CASE ext' = ext_add(ext, c) BY <1>1, <5>1, <5>3, <5>5, AddNotes
        <5>6. CASE ext' = ext_remove(ext, c) BY <1>1, <4>2, <5>1, <5>3, <5>6, RemoveForgets
        <5> QED BY <5>2, <5>4, <5>5, <5>6
      <4>3. CASE d = c
        <5>1. n # Free BY <3>2, <3>3, <4>3
        <5>2. CASE o = Free
          <6>1. ext' = ext_add(ext, c) BY <4>1, <5>1, <5>2 DEF Renoted
          <6> QED BY <1>1, <4>3, <6>1, AddNotes
        <5>3. CASE o # Free
          <6>1. ext' = ext /\ inside(ext, c) BY <3>1, <4>1, <5>1, <5>3 DEF Renoted
          <6> QED BY <1>1, <4>3, <6>1, InsideIsNoted
        <5> QED BY <5>2, <5>3
      <4> QED BY <4>2, <4>3
    <3>4. AllNoted' BY <1>1, <1>4, <2>2, <3>3 DEF AllNoted, Fat1
    <3> QED BY <1>2, <3>4 DEF Exact
  <2> QED BY <2>1, <2>2
<1> QED
  <2>1. wr' = [wr EXCEPT !.old[c] = n, !.c = c + 1] => /\ wr'.old = [wr.old EXCEPT ![c] = n]
                                                       /\ wr'.k = wr.k
    BY <1>1 DEF Merges
  <2>2. wr' = [wr EXCEPT !.c = c + 1] => wr'.old = wr.old /\ wr'.k = wr.k
    BY <1>1 DEF Merges
  <2> QED BY <1>3, <1>4, <2>1, <2>2 DEF MergeEntry

LEMMA ExactNext ==
    ASSUME Types, NoStaleSector, Safe, Exact, "walk" \notin CardFaults,
           Len(ext) < VSD_EXTENTS, boots = 1, boots' = 1, [Next]_vars
    PROVE  Exact'
<1> USE Constants
<1>0. /\ fat \in [Copies -> Image] /\ Kept \in [Copies -> CachedImage]
      /\ \A j \in Copies : Kept[j] \in {NoCopy, fat[j]}
  BY KeptIs DEF Types, CardOK, GuardOK
<1>1. CASE Guard
  <2>1. CASE EndMerge
    <3>1. /\ vpc = "merge" /\ vpc' = "idle" /\ ext' = ext /\ host' = host /\ wr.k \in Copies
          /\ fc[wr.k] = fat[wr.k]
      BY <2>1 DEF EndMerge, Types, GuardOK, Safe, MergeKeeps
    <3>2. fat' = [fat EXCEPT ![wr.k] = wr.old] BY <1>0, <2>1, <3>1 DEF EndMerge
    <3>3. Fat1' = Fat1 BY <1>0, <3>1, <3>2 DEF Fat1
    <3> QED BY <3>1, <3>3 DEF Exact, AsFound, WalkNotes, AllNoted
  <2> QED BY <1>1, <2>1, ExactWalk, ExactMergeEntry DEF Guard
<1>2. ASSUME NEW k \in Copies, NEW b, BeginMerge(k, b) PROVE Exact'
  <2>1. FatSec(Kept, k)[k] = fat[k] BY <1>0, FatSecIs
  <2>2. /\ vpc = "idle" /\ UNCHANGED <<fat, host, ext>> /\ vpc' = "merge"
        /\ wr'.k = k /\ wr'.old = fat[k]
    BY <1>2, <2>1 DEF BeginMerge, cardVars
  <2>3. Fat1' = Fat1 BY <2>2 DEF Fat1
  <2> QED BY <2>2, <2>3 DEF Exact, AsFound, WalkNotes, AllNoted
<1>3. ASSUME UNCHANGED <<fat, host, ext>>, vpc = "idle", vpc' = "idle" PROVE Exact'
  BY <1>3 DEF Exact, AsFound, WalkNotes, AllNoted, Fat1
<1>4. CASE AnyWrite
  BY <1>2, <1>3, <1>4 DEF AnyWrite, MergeFails, DataWrite, DataRefused, DataAsked, cardVars
<1>5. ASSUME UNCHANGED <<cardVars, vpc, guardVars>> PROVE Exact'
  BY <1>5 DEF Exact, AsFound, WalkNotes, AllNoted, Fat1, TreeCluster, cardVars, guardVars
<1>6. CASE Driver
  <2>1. CASE Mount \/ WriteData \/ WriteDir
    BY <1>3, <2>1 DEF Mount, ReadFat, WriteData, WriteDir, DataWrite, DataRefused, DataAsked, cardVars
  <2>2. CASE Done \/ \E f \in Files : Delete(f) \/ \E c \in Clusters : Create(f, c) \/ Grow(f, c)
    BY <1>5, <2>2 DEF Done, Delete, Create, Grow
  <2>3. ASSUME NEW k \in Copies, WriteFat(k) PROVE Exact'
    BY <1>2, <1>3, <2>3 DEF WriteFat, MergeFails, cardVars
  <2> QED BY <1>6, <2>1, <2>2, <2>3 DEF Driver
<1>7. CASE UseCard \/ UNCHANGED vars BY <1>5, <1>7 DEF UseCard, vars
<1>8. CASE SaveSettings
  <2> DEFINE After(d) == fat'[1][d] # Free /\ host'[d] = Free
  <2>1. UNCHANGED <<sd, ext, vpc>> /\ vpc \notin {"walk", "merge"}
    BY <1>8 DEF SaveSettings, WriteAnew, Unlocked, guardVars
  <2>2. \A d \in Clusters : /\ After(d) => TreeCluster(d)
                            /\ TreeCluster(d) => After(d) /\ fat'[1][d] = fat[1][d]
    BY <1>8, SettingsStep
  <2> HIDE DEF After
  <2>3. vpc = "off" =>
          /\ \A c \in Clusters : After(c) => InTree(c)
          /\ \A c \in Clusters : InTree(c) => After(c) /\ fat'[1][c] = NextInTree(c)
    BY <2>2 DEF Exact, AsFound
  <2>4. AsFound' BY <2>1, <2>3 DEF Exact, AsFound, TreeCluster, After
  <2>5. vpc = "idle" => \A c \in Clusters : After(c) => Noted(ext, c)
    BY <2>2 DEF Exact, AllNoted, Fat1, TreeCluster
  <2>6. AllNoted' BY <2>1, <2>5 DEF AllNoted, Fat1, After
  <2> QED BY <2>1, <2>4, <2>6 DEF Exact, WalkNotes
<1>9. CASE Restart
  <2>1. boots' = boots + 1 BY <1>9 DEF Restart
  <2> QED BY <2>1
<1> QED BY <1>1, <1>4, <1>6, <1>7, <1>8, <1>9 DEF Next

(* If the walk's sectors read, the runs hold exactly the clusters in use   *)
(* that are not the firmware's, from the walk's end on, whatever both      *)
(* write, until the Evo is started again and while a slot of the run table *)
(* is left (vsd.h:17-19): no cluster the firmware may take next is inside, *)
(* and none of the Evo's own is refused to it.                             *)
THEOREM InsideIsExact ==
    "walk" \notin CardFaults => (Spec /\ []Room => []InsideExact)
<1> SUFFICES ASSUME "walk" \notin CardFaults PROVE Spec /\ []Room => []InsideExact
  OBVIOUS
<1> DEFINE Inv == Types /\ NoStaleSector /\ Safe /\ Exact
<1>1. Init => Inv
  <2>1. Init => NoStaleSector BY DEF Init, NoStaleSector
  <2> QED BY <2>1, TypesInit, SafeInit, ExactInit
<1>2. Inv /\ Room /\ Room' /\ [Next]_vars => Inv'
  <2> SUFFICES ASSUME Inv, Room, Room', [Next]_vars PROVE Inv' OBVIOUS
  <2> QED BY TypesNext, NoStaleNext, SafeNext, ExactNext DEF Room
<1>3. Inv => InsideExact BY ExactMeans
<1> HIDE DEF Inv
<1> QED BY <1>1, <1>2, <1>3, PTL DEF Spec

-----------------------------------------------------------------------------
(* The root directory.                                                     *)

\* A walk starts with the root directory, which stays noted, and its entry
\* in FAT 1 is never freed.
RootKept ==
    /\ vpc = "walk" => \/ Noted(ext, sdroot)
                       \/ ext = <<>> /\ walk.c = sdroot /\ walk.guard > 0
    /\ vpc \in {"idle", "merge"} => Noted(ext, sdroot)
    /\ vpc # "none" \/ ~Allocates => fat[1][sdroot] # Free
    /\ vpc = "merge" /\ wr.k = 1 => wr.old[sdroot] # Free

\* If the firmware allocates, its files are what Safe says.
FirmwareSafe == Allocates => Safe

LEMMA RootInit == Init => RootKept
BY Constants, NextInTreeIs DEF Init, InTree, RootKept

LEMMA RootStaysKept ==
    ASSUME Types, RootKept PROVE RootStays
<1>1. inside(ext, sdroot) <=> Noted(ext, sdroot)
  BY Constants, InsideIsNoted DEF Types, GuardOK
<1> QED BY <1>1, Constants DEF RootKept, RootStays, Inside

LEMMA RootWalk ==
    ASSUME Types, RootKept, Scan \/ ScanFails \/ NoteCluster \/ NextEntry \/ WalkEnds
    PROVE  RootKept'
<1> USE Constants
<1>1. fat' = fat /\ vpc \in {"off", "walk"}
  BY DEF Scan, ScanFails, NoteCluster, NextEntry, WalkEnds, cardVars
<1>2. Sorted(ext) BY DEF Types, GuardOK
<1>3. ASSUME NextEntry \/ WalkEnds PROVE Noted(ext, sdroot)
  <2> SUFFICES ASSUME ext = <<>>, walk.c = sdroot, walk.guard > 0 PROVE FALSE
    BY <1>3 DEF NextEntry, WalkEnds, RootKept
  <2>1. ~ChainGoesOn BY <1>3 DEF NextEntry, WalkEnds
  <2>2. inside(ext, sdroot) BY <2>1 DEF ChainGoesOn
  <2> QED BY <1>2, <2>2, InsideIsNoted, NothingNoted
<1>4. CASE Scan BY <1>1, <1>4 DEF Scan, RootKept
<1>5. CASE ScanFails BY <1>1, <1>5 DEF ScanFails, RootKept
<1>6. CASE NoteCluster
  <2>1. ext' = ext_add(ext, walk.c) /\ walk.c \in Nat /\ vpc = "walk" /\ vpc' = "walk"
    BY <1>6 DEF NoteCluster, ChainGoesOn
  <2>2. CASE Noted(ext, sdroot) BY <1>1, <1>2, <2>1, <2>2, AddNotes DEF RootKept
  <2>3. CASE ext = <<>> /\ walk.c = sdroot
    <3>1. Len(ext) < VSD_EXTENTS BY <2>3, EmptySeq, ExtentsAssumption
    <3> QED BY <1>1, <1>2, <2>1, <2>3, <3>1, AddNotes DEF RootKept
  <2> QED BY <2>1, <2>2, <2>3 DEF RootKept
<1>7. CASE NextEntry BY <1>1, <1>3, <1>7 DEF NextEntry, RootKept
<1>8. CASE WalkEnds BY <1>1, <1>3, <1>8 DEF WalkEnds, RootKept
<1> QED BY <1>4, <1>5, <1>6, <1>7, <1>8

\* No entry of a merge into FAT 1 frees the root directory's cluster.
LEMMA RootMergeEntry ==
    ASSUME Types, RootKept, MergeEntry
    PROVE  RootKept'
<1> USE Constants
<1> DEFINE c == wr.c
           o == wr.old[c]
           n == wr.b[c]
<1>1. /\ vpc = "merge" /\ vpc' = "merge" /\ c \in Clusters /\ c \in Nat /\ Sorted(ext)
      /\ wr.k \in Copies /\ wr.k \in Nat /\ wr.old \in Image /\ wr \in Merges /\ fat' = fat
  BY DEF MergeEntry, cardVars, Types, GuardOK, Copies
<1>2. CASE wr'.old = wr.old /\ wr'.k = wr.k /\ ext' = ext BY <1>1, <1>2 DEF RootKept
<1>3. CASE /\ EntryOk(c, o, n)
           /\ wr'.old = [wr.old EXCEPT ![c] = n] /\ wr'.k = wr.k
           /\ ext' = IF wr.k = 1 THEN Renoted(c, o, n) ELSE ext
  <2> HIDE DEF c, o, n
  <2>1. wr.k = 1 => ~(c = sdroot /\ n = Free) BY <1>3 DEF EntryOk
  <2>2. wr'.old[sdroot] = IF c = sdroot THEN n ELSE wr.old[sdroot] BY <1>1, <1>3 DEF Image
  <2>3. Noted(ext', sdroot)
    <3>1. Noted(ext, sdroot) BY <1>1 DEF RootKept
    <3>2. CASE ext' = ext BY <3>1, <3>2
    <3>3. CASE ext' = ext_add(ext, c) BY <1>1, <3>1, <3>3, AddNotes
    <3>4. CASE ext' = ext_remove(ext, c) /\ c # sdroot BY <1>1, <3>1, <3>4, RemoveForgets
    <3> QED BY <1>3, <2>1, <3>2, <3>3, <3>4 DEF Renoted
  <2> QED BY <1>1, <1>3, <2>1, <2>2, <2>3 DEF RootKept
<1> QED
  <2>1. wr' = [wr EXCEPT !.old[c] = n, !.c = c + 1] => /\ wr'.old = [wr.old EXCEPT ![c] = n]
                                                       /\ wr'.k = wr.k
    BY <1>1 DEF Merges
  <2>2. wr' = [wr EXCEPT !.c = c + 1] => wr'.old = wr.old /\ wr'.k = wr.k
    BY <1>1 DEF Merges
  <2> QED BY <1>2, <1>3, <2>1, <2>2 DEF MergeEntry

LEMMA RootNext ==
    ASSUME Types, NoStaleSector, RootKept, FirmwareSafe, Allocates => boots' = 1, [Next]_vars
    PROVE  RootKept'
<1> USE Constants
<1>0. /\ fat \in [Copies -> Image] /\ Kept \in [Copies -> CachedImage]
      /\ \A j \in Copies : Kept[j] \in {NoCopy, fat[j]}
  BY KeptIs DEF Types, CardOK, GuardOK
<1>1. CASE Guard
  <2>1. CASE EndMerge
    <3>1. vpc = "merge" /\ vpc' = "idle" /\ ext' = ext /\ wr.k \in Copies
      BY <2>1 DEF EndMerge, Types, GuardOK
    <3>2. fat'[1] \in {fat[1]} \cup (IF wr.k = 1 THEN {wr.old} ELSE {})
      BY <1>0, <2>1, <3>1 DEF EndMerge
    <3>3. fat'[1][sdroot] # Free BY <3>1, <3>2 DEF RootKept
    <3> QED BY <3>1, <3>3 DEF RootKept
  <2> QED BY <1>1, <2>1, RootWalk, RootMergeEntry DEF Guard
<1>2. ASSUME NEW k \in Copies, NEW b, BeginMerge(k, b) PROVE RootKept'
  <2>1. FatSec(Kept, k)[k] = fat[k] BY <1>0, FatSecIs
  <2>2. vpc = "idle" /\ fat' = fat /\ ext' = ext /\ vpc' = "merge" /\ wr'.k = k /\ wr'.old = fat[k]
    BY <1>2, <2>1 DEF BeginMerge, cardVars
  <2> QED BY <2>2 DEF RootKept
<1>3. ASSUME UNCHANGED <<fat, ext>>, vpc = "idle", vpc' = "idle" PROVE RootKept'
  BY <1>3 DEF RootKept
<1>4. CASE AnyWrite
  BY <1>2, <1>3, <1>4 DEF AnyWrite, MergeFails, DataWrite, DataRefused, DataAsked, cardVars
<1>5. CASE Driver
  <2>1. CASE Mount \/ WriteData \/ WriteDir
    BY <1>3, <2>1 DEF Mount, ReadFat, WriteData, WriteDir, DataWrite, DataRefused, DataAsked, cardVars
  <2>2. CASE Done \/ \E f \in Files : Delete(f) \/ \E c \in Clusters : Create(f, c) \/ Grow(f, c)
    <3>1. UNCHANGED <<cardVars, vpc, guardVars>> BY <2>2 DEF Done, Delete, Create, Grow
    <3> QED BY <3>1 DEF RootKept, cardVars, guardVars
  <2>3. ASSUME NEW k \in Copies, WriteFat(k) PROVE RootKept'
    BY <1>2, <1>3, <2>3 DEF WriteFat, MergeFails, cardVars
  <2> QED BY <1>5, <2>1, <2>2, <2>3 DEF Driver
<1>6. CASE UseCard \/ UNCHANGED vars
  <2>1. UNCHANGED <<cardVars, vpc, guardVars>> BY <1>6 DEF UseCard, vars
  <2> QED BY <2>1 DEF RootKept, cardVars, guardVars
<1>7. CASE SaveSettings
  <2>1. Safe /\ Allocates BY <1>7 DEF SaveSettings, FirmwareSafe
  <2>2. UNCHANGED <<ext, vpc>> /\ vpc \notin {"walk", "merge"}
    BY <1>7 DEF SaveSettings, WriteAnew, Unlocked, guardVars
  <2>3. vpc # "none" => TreeCluster(sdroot)
    <3>1. CASE vpc = "off" BY <3>1, <2>1 DEF Safe, WalkApart
    <3>2. CASE vpc = "idle"
      <4>1. Noted(ext, sdroot) BY <3>2 DEF RootKept
      <4> QED BY <2>1, <3>2, <4>1 DEF Safe, NotedApart, Fat1, TreeCluster
    <3> QED BY <2>2, <3>1, <3>2 DEF Types, GuardOK
  <2>4. vpc # "none" => fat'[1][sdroot] # Free BY <1>7, <2>1, <2>3, SettingsStep
  <2> QED BY <2>1, <2>2, <2>4 DEF RootKept
<1>8. CASE Restart
  <2>1. ~Allocates
    <3> SUFFICES ASSUME Allocates PROVE FALSE OBVIOUS
    <3>1. boots' = boots + 1 /\ boots \in Nat /\ boots > 0 BY <1>8, CardAssumption DEF Restart, Types
    <3> QED BY <3>1
  <2>2. fat' = fat /\ vpc' = "off" BY <1>8 DEF Restart, cardVars
  <2> QED BY <2>1, <2>2 DEF RootKept
<1> QED BY <1>1, <1>4, <1>5, <1>6, <1>7, <1>8 DEF Next

(* The Evo's root directory is there for as long as its card is, whatever  *)
(* the Evo writes (vsd.c:344-347): always if the firmware writes its files *)
(* in place; if it also allocates, until the Evo is started again, while a *)
(* slot of the run table is left.                                          *)
THEOREM RootIsThere == Spec /\ [](Allocates => Room) => []RootStays
<1> DEFINE May == Allocates => Room
           Inv == Types /\ NoStaleSector /\ RootKept /\ FirmwareSafe
<1>1. Init => Inv
  <2>1. Init => NoStaleSector BY DEF Init, NoStaleSector
  <2> QED BY <2>1, TypesInit, SafeInit, RootInit DEF FirmwareSafe
<1>2. Inv /\ May /\ May' /\ [Next]_vars => Inv'
  <2> SUFFICES ASSUME Inv, May, May', [Next]_vars PROVE Inv' OBVIOUS
  <2>1. Allocates => boots = 1 /\ boots' = 1 /\ Len(ext) < VSD_EXTENTS BY DEF Room
  <2>2. FirmwareSafe' BY <2>1, SafeNext DEF FirmwareSafe
  <2> QED BY <2>1, <2>2, TypesNext, NoStaleNext, RootNext
<1>3. Inv => RootStays BY RootStaysKept
<1> HIDE DEF Inv, May
<1>4. Spec /\ []May => []RootStays BY <1>1, <1>2, <1>3, PTL DEF Spec
<1> QED BY <1>4 DEF May

-----------------------------------------------------------------------------
(* A card the firmware writes in place only.                               *)

\* A FAT in which the firmware's clusters have their entries, and no other
\* cluster leads to one of them.
Apart(i) ==
    \A c \in Clusters : /\ host[c] # Free => i[c] = host[c]
                        /\ host[c] = Free /\ i[c] \in Clusters => host[i[c]] = Free

\* Whatever the Evo has of the FAT, on its card, in a merge or in its driver,
\* is such a FAT; so are the clusters it puts into its directory.
InPlace ==
    /\ spoilt = {}
    /\ host[sdroot] = Free
    /\ \A k \in Copies : Apart(fat[k])
    /\ vpc = "merge" => Apart(wr.b) /\ Apart(wr.old)
    /\ img # NoCopy => Apart(img)
    /\ \A f \in Files : sd[f] \in Clusters => host[sd[f]] = Free
    /\ op.c \in Clusters => host[op.c] = Free

\* A chain that starts apart stays apart.
LEMMA ChainApart ==
    ASSUME NEW i, Apart(i), NEW s, s \in Clusters => host[s] = Free
    PROVE  \A c \in Chain(i, s) : c \in Clusters /\ host[c] = Free
<1> DEFINE A == {c \in Clusters : host[c] = Free}
<1>1. Follows(i, A) BY DEF Apart, Follows
<1>2. s \in Clusters => s \in A OBVIOUS
<1>3. A \in SUBSET Clusters OBVIOUS
<1>4. \A c \in Chain(i, s) : c \in A
  <2> HIDE DEF A
  <2> QED BY <1>1, <1>2, <1>3 DEF Chain
<1> QED BY <1>4

\* A FAT with some entries of another such, or with a cluster of the Evo's
\* given an entry of its own.
LEMMA ApartExcept ==
    ASSUME Types, NEW i \in Image, Apart(i), NEW c \in Clusters, NEW n \in Entry,
           host[c] # Free => n = host[c],
           host[c] = Free /\ n \in Clusters => host[n] = Free
    PROVE  Apart([i EXCEPT ![c] = n])
<1> DEFINE j == [i EXCEPT ![c] = n]
<1>1. \A d \in Clusters : j[d] = IF d = c THEN n ELSE i[d] BY DEF Image
<1> HIDE DEF j
<1>2. Apart(j) BY <1>1 DEF Apart
<1> QED BY <1>2 DEF j

LEMMA InPlaceMeans ==
    ASSUME Types, InPlace PROVE RestOfCardSafe /\ TreeApart
<1>1. RestOfCardSafe BY DEF InPlace, Apart, RestOfCardSafe
<1>2. TreeApart
  <2> SUFFICES ASSUME NEW f \in Files, NEW c \in Chain(fat[1], sd[f])
               PROVE  host[c] = Free
    BY DEF TreeApart
  <2> QED BY Constants, ChainApart DEF InPlace
<1> QED BY <1>1, <1>2

LEMMA InPlaceInit == Init => InPlace
<1> SUFFICES ASSUME Init PROVE InPlace OBVIOUS
<1> USE Constants
<1>1. \A c \in Clusters : InTree(c) => c \notin Own \cup {Settings} BY TreeIs
<1>2. ASSUME NEW c \in Clusters, InTree(c) PROVE host[c] = Free
  BY <1>1, <1>2 DEF Init
<1>3. ASSUME NEW k \in Copies PROVE Apart(fat[k])
  <2>1. \A c \in Clusters : host[c] # Free => fat[k][c] = host[c] BY <1>1 DEF Init
  <2>2. ASSUME NEW c \in Clusters, fat[k][c] \in Clusters PROVE host[fat[k][c]] = Free
    <3>1. InTree(c) /\ fat[k][c] = NextInTree(c) BY <2>2 DEF Init
    <3>2. InTree(fat[k][c]) BY <2>2, <3>1, NextInTreeIs
    <3> QED BY <1>2, <2>2, <3>2
  <2> QED BY <2>1, <2>2 DEF Apart
<1>4. ASSUME NEW f \in Files, sd[f] \in Clusters PROVE host[sd[f]] = Free
  <2>1. Tree[f] # <<>> /\ sd[f] = Tree[f][1] BY <1>4 DEF Init
  <2> QED BY <1>2, <2>1, TreeStarts
<1>5. host[sdroot] = Free BY <1>2 DEF InTree
<1>6. op.c \notin Clusters BY DEF Init, NoOp, Free
<1> QED BY <1>3, <1>4, <1>5, <1>6 DEF Init, InPlace

\* A step that leaves the card, the driver and the merge alone.
LEMMA InPlaceStays ==
    ASSUME InPlace, UNCHANGED <<fat, sd, host, spoilt, img, op>>,
           vpc' = "merge" => Apart(wr'.b) /\ Apart(wr'.old)
    PROVE  InPlace'
BY DEF InPlace, Apart

LEMMA InPlaceBeginMerge ==
    ASSUME Types, NoStaleSector, InPlace, NEW k \in Copies, img # NoCopy, BeginMerge(k, img),
           img' = img, op'.c = op.c
    PROVE  InPlace'
<1> USE Constants
<1>1. /\ Kept \in [Copies -> CachedImage]
      /\ \A j \in Copies : Kept[j] \in {NoCopy, fat[j]}
  BY KeptIs DEF Types, CardOK, GuardOK
<1>2. FatSec(Kept, k)[k] = fat[k] BY <1>1, FatSecIs DEF Types, CardOK
<1>3. wr'.b = img /\ wr'.old = fat[k] /\ UNCHANGED <<fat, sd, host, spoilt>>
  BY <1>2 DEF BeginMerge, cardVars
<1> QED BY <1>3 DEF InPlace, Apart

LEMMA InPlaceMergeEntry ==
    ASSUME Types, InPlace, MergeEntry
    PROVE  InPlace'
<1> USE Constants
<1>1. /\ vpc = "merge" /\ wr.c \in Clusters /\ wr.b \in Image /\ wr.old \in Image
      /\ wr.b[wr.c] \in Entry /\ wr \in Merges /\ UNCHANGED <<fat, sd, host, spoilt, img, op>>
  BY DEF MergeEntry, Types, GuardOK, Image, cardVars, evoVars
<1>2. Apart(wr.b) /\ Apart(wr.old) BY <1>1 DEF InPlace
<1>3. Apart([wr.old EXCEPT ![wr.c] = wr.b[wr.c]])
  BY <1>1, <1>2, ApartExcept DEF Apart
<1>4. wr'.b = wr.b /\ wr'.old \in {wr.old, [wr.old EXCEPT ![wr.c] = wr.b[wr.c]]}
  BY <1>1 DEF MergeEntry, Merges
<1> QED BY <1>1, <1>2, <1>3, <1>4, InPlaceStays

LEMMA InPlaceEndMerge ==
    ASSUME Types, InPlace, EndMerge
    PROVE  InPlace'
<1>1. /\ vpc = "merge" /\ vpc' = "idle" /\ wr.k \in Copies /\ fat \in [Copies -> Image]
      /\ UNCHANGED <<sd, host, spoilt, img, op>>
      /\ fat' \in {fat, [fat EXCEPT ![wr.k] = wr.old]}
  BY DEF EndMerge, Types, CardOK, GuardOK, evoVars
<1>2. \A k \in Copies : fat'[k] \in {fat[k], wr.old} BY <1>1
<1>3. \A k \in Copies : Apart(fat'[k]) BY <1>1, <1>2 DEF InPlace
<1> QED BY <1>1, <1>3 DEF InPlace, Apart

LEMMA InPlaceDriver ==
    ASSUME Types, NoStaleSector, InPlace, Driver
    PROVE  InPlace'
<1> USE Constants
<1>1. CASE Mount
  <2>1. img' = fat[1] /\ vpc' = "idle" /\ UNCHANGED <<fat, sd, host, spoilt, op>>
    BY <1>1 DEF Mount, ReadFat, cardVars
  <2> QED BY <2>1 DEF InPlace, Apart
<1>2. CASE WriteData
  <2>1. op.c \in Clusters /\ host[op.c] = Free BY <1>2 DEF WriteData, Types, EvoOK, InPlace
  <2>2. /\ vpc' = "idle" /\ UNCHANGED <<fat, host, img>> /\ op'.c \in {op.c, Free}
    BY <1>2 DEF WriteData, DataWrite, DataRefused, DataAsked, Drives, NoOp, Free, Types, EvoOK, Operations
  <2>3. UNCHANGED <<sd, spoilt>> BY <1>2, <2>1 DEF WriteData, DataWrite, DataRefused
  <2> QED BY <2>1, <2>2, <2>3 DEF InPlace, Apart
<1>3. CASE WriteDir
  <2>1. /\ vpc' = "idle" /\ UNCHANGED <<fat, host, img>> /\ op'.c = op.c
        /\ sd' = [sd EXCEPT ![op.f] = op.c]
    BY <1>3 DEF WriteDir, DataWrite, DataAsked, Drives, Types, EvoOK, Operations
  <2>2. spoilt' = spoilt BY <1>3 DEF WriteDir, DataWrite, InPlace
  <2>3. \A f \in Files : sd'[f] \in {sd[f], op.c} BY <2>1 DEF Types, CardOK
  <2> QED BY <2>1, <2>2, <2>3 DEF InPlace, Apart
<1>4. CASE Done
  BY <1>4 DEF Done, NoOp, Free, InPlace, Apart, cardVars, guardVars
<1>5. ASSUME NEW f \in Files, Delete(f) PROVE InPlace'
  <2>1. /\ img # NoCopy /\ img \in Image /\ img' = Cleared(img, Chain(img, sd[f])) /\ op'.c = Free
        /\ UNCHANGED <<fat, sd, host, spoilt, vpc, wr>>
    BY <1>5 DEF Delete, NextOperation, Types, EvoOK, CachedImage, cardVars, guardVars
  <2>2. \A c \in Chain(img, sd[f]) : host[c] = Free BY <2>1, ChainApart DEF InPlace
  <2>3. \A c \in Clusters : img'[c] = IF c \in Chain(img, sd[f]) THEN Free ELSE img[c]
    BY <2>1 DEF Cleared
  <2>4. Apart(img') BY <2>1, <2>2, <2>3 DEF Apart, InPlace
  <2> QED BY <2>1, <2>4 DEF InPlace, Apart
<1>6. ASSUME NEW f \in Files, NEW c \in Clusters, Create(f, c) PROVE InPlace'
  <2>1. /\ img # NoCopy /\ img \in Image /\ img[c] = Free /\ img' = [img EXCEPT ![c] = Eoc] /\ op'.c = c
        /\ UNCHANGED <<fat, sd, host, spoilt, vpc, wr>>
    BY <1>6 DEF Create, NextOperation, Types, EvoOK, CachedImage, cardVars, guardVars
  <2>2. host[c] = Free BY <2>1 DEF InPlace, Apart
  <2>3. Apart(img') BY <2>1, <2>2, ApartExcept DEF InPlace
  <2> QED BY <2>1, <2>2, <2>3 DEF InPlace, Apart
<1>7. ASSUME NEW f \in Files, NEW c \in Clusters, Grow(f, c) PROVE InPlace'
  <2>1. /\ img # NoCopy /\ img \in Image /\ img[c] = Free /\ op'.c = c
        /\ UNCHANGED <<fat, sd, host, spoilt, vpc, wr>>
    BY <1>7 DEF Grow, NextOperation, Types, EvoOK, CachedImage, cardVars, guardVars
  <2>2. PICK last \in Chain(img, sd[f]) : img' = [img EXCEPT ![c] = Eoc, ![last] = c]
    BY <1>7 DEF Grow
  <2>3. host[c] = Free /\ last \in Clusters /\ host[last] = Free
    BY <2>1, ChainApart DEF InPlace, Apart
  <2>4. [img EXCEPT ![c] = Eoc] \in Image /\ Apart([img EXCEPT ![c] = Eoc])
    BY <2>1, <2>3, ImageExcept, ApartExcept DEF InPlace
  <2>5. Apart(img') BY <2>2, <2>3, <2>4, ApartExcept
  <2> QED BY <2>1, <2>3, <2>5 DEF InPlace, Apart
<1>8. ASSUME NEW k \in Copies, WriteFat(k) PROVE InPlace'
  <2>1. img' = img /\ op'.c = op.c /\ img # NoCopy
    <3>1. img \in Image BY <1>8 DEF WriteFat, Types, EvoOK
    <3>2. img # NoCopy BY <3>1 DEF Image, NoCopy
    <3> QED BY <1>8, <3>2 DEF WriteFat, Types, EvoOK, Operations
  <2>2. CASE BeginMerge(k, img) BY <2>1, <2>2, InPlaceBeginMerge
  <2>3. CASE MergeFails(k)
    <3>1. vpc' = "idle" /\ UNCHANGED <<fat, sd, host, spoilt>> BY <2>3 DEF MergeFails, cardVars
    <3> QED BY <2>1, <3>1 DEF InPlace, Apart
  <2> QED BY <1>8, <2>2, <2>3 DEF WriteFat
<1> QED BY <1>1, <1>2, <1>3, <1>4, <1>5, <1>6, <1>7, <1>8 DEF Driver

LEMMA InPlaceNext ==
    ASSUME Types, NoStaleSector, InPlace, ~Allocates, ~AnyWrites, [Next]_vars
    PROVE  InPlace'
<1>1. CASE Guard
  <2>1. CASE Scan \/ ScanFails \/ NoteCluster \/ NextEntry \/ WalkEnds
    BY <2>1, InPlaceStays DEF Scan, ScanFails, NoteCluster, NextEntry, WalkEnds, cardVars, evoVars
  <2> QED BY <1>1, <2>1, InPlaceMergeEntry, InPlaceEndMerge DEF Guard
<1>2. CASE Driver BY <1>2, InPlaceDriver
<1>3. CASE UseCard
  <2>1. UNCHANGED <<cardVars, vpc, wr, img, op>> BY <1>3 DEF UseCard, guardVars, evoVars
  <2> QED BY <2>1 DEF InPlace, Apart, cardVars
<1>4. CASE Restart
  <2>1. UNCHANGED cardVars /\ vpc' = "off" /\ img' = NoCopy /\ op'.c = 0 BY <1>4 DEF Restart, NoOp
  <2> QED BY <2>1, Constants DEF InPlace, Apart, cardVars, Free
<1>5. CASE UNCHANGED vars
  BY <1>5 DEF InPlace, Apart, vars, cardVars, guardVars, evoVars
<1> QED BY <1>1, <1>2, <1>3, <1>4, <1>5 DEF Next, AnyWrite, SaveSettings

(* While the firmware allocates nothing on the card and the Evo writes it  *)
(* as a FAT driver does, the firmware's files are safe and no file of      *)
(* /evo/SD leads into one of them: however often the Evo is started or cut *)
(* off in the middle of an operation, whatever fails to read, and with the *)
(* run table full (vsd.h:15-22, vsd.c:179).                                *)
THEOREM InPlaceSafe ==
    ~Allocates /\ ~AnyWrites => (Spec => [](RestOfCardSafe /\ TreeApart))
<1> SUFFICES ASSUME ~Allocates, ~AnyWrites PROVE Spec => [](RestOfCardSafe /\ TreeApart)
  OBVIOUS
<1>1. Init => Types /\ NoStaleSector /\ InPlace
  <2>1. Init => NoStaleSector BY DEF Init, NoStaleSector
  <2> QED BY <2>1, TypesInit, InPlaceInit
<1>2. Types /\ NoStaleSector /\ InPlace /\ [Next]_vars => (Types /\ NoStaleSector /\ InPlace)'
  BY TypesNext, NoStaleNext, InPlaceNext
<1>3. Types /\ InPlace => RestOfCardSafe /\ TreeApart BY InPlaceMeans
<1> QED BY <1>1, <1>2, <1>3, PTL DEF Spec
=============================================================================
