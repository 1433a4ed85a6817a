--------------------------- MODULE DiskImageProofs ---------------------------
(***************************************************************************)
(* Theorems about DiskImage, for images of any size and any content, any   *)
(* files, any ramdisk that has the FAT entries FAT_init looks at, and      *)
(* whatever malloc returns.                                                *)
(***************************************************************************)
EXTENDS DiskImage, SequenceTheorems, TLAPS

Image == Seq(Cell)

-----------------------------------------------------------------------------
(* Images. *)

LEMMA Constants ==
    /\ FATSize = 3 /\ Used = 255 /\ NULL = 0 /\ Array = 1
    /\ Used \in Cell /\ 0 \in Cell /\ Outside \in Cell /\ Values \subseteq Cell
    /\ DefaultSize \in Nat /\ DefaultSize > 3
    /\ Ramdisk \in Image /\ Len(Ramdisk) >= 3
    /\ Files \subseteq Image /\ NoFile \notin Image
  BY DiskImageAssumption DEF FATSize, Used, NULL, Array, Cell, Image

LEMMA Prefix ==
    ASSUME NEW s \in Image, NEW n \in Nat, n <= Len(s)
    PROVE  SubSeq(s, 1, n) \in Image /\ Len(SubSeq(s, 1, n)) = n
<1>1. \A i \in 1..n : s[i] \in Cell
  BY LenProperties DEF Image
<1>. QED BY <1>1, SubSeqProperties DEF Image

\* FAT_init makes an image of the same size; what it changes it marks.
LEMMA FATInitEffect ==
    ASSUME NEW image \in Image
    PROVE  /\ FATInit(image) \in Image
           /\ Len(FATInit(image)) = Len(image)
           /\ \A k \in 1..Len(image) :
                 FATInit(image)[k] # image[k] =>
                     /\ FATInit(image)[k] = Used
                     /\ k < FATSize \/ (k = FATSize /\ image[k] = 0)
<1>1. Len(image) \in Nat /\ \A k \in 1..Len(image) : image[k] \in Cell
  BY DEF Image
<1>2. FATInit(image) = [k \in 1..Len(image) |->
          IF k < FATSize \/ (k = FATSize /\ image[k] = 0) THEN Used ELSE image[k]]
  BY DEF FATInit
<1>3. FATInit(image) \in Image /\ Len(FATInit(image)) = Len(image)
  BY <1>1, <1>2, Constants DEF Image
<1>. QED BY <1>1, <1>2, <1>3

-----------------------------------------------------------------------------
(* The invariant: the properties, and that what a store wrote is an image.  *)

SourceIsImage == source # NoFile => source \in Image

DiskInv ==
    /\ DiskTypeOK
    /\ StoresWhatIsUsed
    /\ SourceIsImage
    /\ StoredWhole

LEMMA DiskInvInit == Init => DiskInv
<1> SUFFICES ASSUME Init PROVE DiskInv
  OBVIOUS
<1>1. /\ images = <<Ramdisk>> /\ disk_ptr = NULL /\ cluster_ptr = NULL /\ disk_size = 0
      /\ file \in Files \cup {NoFile} /\ source = NoFile /\ last.call = "start"
  BY DEF Init, Did
<1>2. /\ images \in Seq(Image) /\ Len(images) = 1 /\ images[1] = Ramdisk
  BY <1>1, Constants
<1>3. DiskTypeOK
  BY <1>1, <1>2, Constants DEF DiskTypeOK, Image
<1>4. StoredWhole
  BY <1>1 DEF StoredWhole
<1>. QED BY <1>1, <1>3, <1>4
         DEF DiskInv, StoresWhatIsUsed, SourceIsImage

\* Facts about a state that satisfies the invariant.
LEMMA DiskFacts ==
    ASSUME DiskInv
    PROVE  /\ images \in Seq(Image) /\ Len(images) \in Nat /\ Len(images) >= 1
           /\ \A p \in 1..Len(images) : images[p] \in Image
           /\ disk_ptr \in 0..Len(images) /\ cluster_ptr \in 0..Len(images)
           /\ disk_size \in Nat
           /\ file = NoFile \/ file \in Image
           /\ disk_ptr # 0 => /\ cluster_ptr = disk_ptr
                              /\ images[disk_ptr] \in Image
  BY Constants DEF DiskInv, DiskTypeOK, StoresWhatIsUsed, Image

\* Nothing of the file or its history changes, and the call was no store that
\* was reported as successful.
LEMMA HostKept ==
    ASSUME DiskInv, UNCHANGED <<file, source>>, last'.call # "store"
    PROVE  /\ file' = NoFile \/ file' \in Seq(Cell)
           /\ SourceIsImage'
           /\ StoredWhole'
  BY DEF DiskInv, DiskTypeOK, SourceIsImage, StoredWhole

\* A new image is loaded: both pointers lead to it.
LEMMA UseNewStep ==
    ASSUME DiskInv, NEW image \in Image, UseNew(image),
           UNCHANGED <<file, source>>, last'.call = "load"
    PROVE  DiskInv'
<1> DEFINE i == FATInit(image)
           n == Len(images)
<1>1. i \in Image /\ Len(i) = Len(image) /\ Len(i) \in Nat
  BY FATInitEffect DEF Image
<1>2. /\ images \in Seq(Image) /\ n \in Nat /\ n >= 1
  BY DiskFacts
<1>3. /\ images' = Append(images, i) /\ disk_ptr' = Len(images')
      /\ cluster_ptr' = Len(images') /\ disk_size' = Len(image)
  BY DEF UseNew
<1> HIDE DEF i
<1>4. /\ images' \in Seq(Image) /\ Len(images') = n + 1
      /\ images'[n + 1] = i /\ images'[1] = images[1]
  BY <1>1, <1>2, <1>3, AppendProperties
<1>5. DiskTypeOK'
  BY <1>1, <1>2, <1>3, <1>4, HostKept, Constants DEF DiskTypeOK, Image
<1>6. StoresWhatIsUsed'
  BY <1>1, <1>2, <1>3, <1>4, Constants DEF StoresWhatIsUsed
<1>. QED BY <1>5, <1>6, HostKept DEF DiskInv

LEMMA LoadRamdiskStep == DiskInv /\ LoadRamdisk => DiskInv'
<1> SUFFICES ASSUME DiskInv, LoadRamdisk PROVE DiskInv'
  OBVIOUS
<1> DEFINE i == FATInit(images[1])
<1>1. /\ images \in Seq(Image) /\ Len(images) \in Nat /\ Len(images) >= 1
      /\ images[1] \in Image
  BY DiskFacts
<1>2. i \in Image /\ Len(i) = Len(images[1])
  BY <1>1, FATInitEffect
<1>3. /\ images' = [images EXCEPT ![1] = i] /\ disk_ptr' = 1 /\ cluster_ptr' = 1
      /\ disk_size' = DefaultSize /\ last'.call = "load" /\ UNCHANGED <<file, source>>
  BY DEF LoadRamdisk, Array, Did
<1> HIDE DEF i
<1>4. images' \in Seq(Image) /\ Len(images') = Len(images) /\ images'[1] = i
  BY <1>1, <1>2, <1>3, ExceptSeq
<1>5. DiskTypeOK'
  BY <1>1, <1>3, <1>4, HostKept, Constants DEF DiskTypeOK, Image
<1>6. StoresWhatIsUsed'
  BY <1>1, <1>2, <1>3, <1>4, Constants DEF StoresWhatIsUsed
<1>. QED BY <1>3, <1>5, <1>6, HostKept DEF DiskInv

\* The file system changes a cell of the image both pointers lead to.
LEMMA ChangeStep ==
    ASSUME DiskInv, NEW k, NEW v \in Cell, ChangeImage(k, v)
    PROVE  DiskInv'
<1> DEFINE c == cluster_ptr
           i == [images[c] EXCEPT ![k] = v]
<1>1. /\ images \in Seq(Image) /\ Len(images) \in Nat /\ Len(images) >= 1
      /\ c \in 1..Len(images) /\ images[c] \in Image /\ Len(images[c]) \in Nat
      /\ disk_ptr \in 0..Len(images)
  <2>1. cluster_ptr # 0
    BY Constants DEF ChangeImage
  <2>2. /\ images \in Seq(Image) /\ Len(images) \in Nat /\ Len(images) >= 1
        /\ \A p \in 1..Len(images) : images[p] \in Image
        /\ disk_ptr \in 0..Len(images) /\ cluster_ptr \in 0..Len(images)
    BY DiskFacts
  <2>3. c \in 1..Len(images) /\ images[c] \in Image
    BY <2>1, <2>2
  <2>. QED BY <2>1, <2>2, <2>3 DEF Image
<1>2. /\ k \in 1..Len(images[c])
      /\ images' = [images EXCEPT ![c] = i]
      /\ UNCHANGED <<disk_ptr, disk_size, cluster_ptr, file, source>>
      /\ last'.call = "change"
  BY Constants DEF ChangeImage, Did
<1>3. /\ i \in Image /\ Len(i) = Len(images[c])
      /\ \A j \in 1..Len(images[c]) : i[j] = IF j = k THEN v ELSE images[c][j]
  BY <1>1, <1>2, ExceptSeq DEF Image
<1> HIDE DEF i
<1>4. /\ images' \in Seq(Image) /\ Len(images') = Len(images)
      /\ \A p \in 1..Len(images) : images'[p] = IF p = c THEN i ELSE images[p]
  BY <1>1, <1>2, <1>3, ExceptSeq
<1>5. \A p \in 1..Len(images) : Len(images'[p]) = Len(images[p])
  BY <1>3, <1>4
<1>6. DiskTypeOK'
  BY <1>1, <1>2, <1>4, HostKept DEF DiskInv, DiskTypeOK, Image
<1>7. StoresWhatIsUsed'
  BY <1>1, <1>2, <1>5, Constants DEF DiskInv, StoresWhatIsUsed
<1>. QED BY <1>2, <1>6, <1>7, HostKept DEF DiskInv

\* What a store writes is an image.
LEMMA ToStoreEffect ==
    ASSUME DiskInv, disk_ptr # NULL
    PROVE  ToStore \in Image /\ Len(ToStore) = disk_size
<1> DEFINE image == images[disk_ptr]
<1>1. /\ disk_size \in Nat /\ image \in Image /\ Len(image) \in Nat
      /\ \A k \in 1..Len(image) : image[k] \in Cell
  BY DiskFacts, Constants DEF Image
<1>2. ToStore = [k \in 1..disk_size |-> IF k <= Len(image) THEN image[k] ELSE Outside]
  BY DEF ToStore
<1> HIDE DEF image
<1>3. \A k \in 1..disk_size : (IF k <= Len(image) THEN image[k] ELSE Outside) \in Cell
  BY <1>1, Constants
<1>. QED BY <1>1, <1>2, <1>3 DEF Image

\* Some cells of what is stored reach the file.
LEMMA Written ==
    ASSUME DiskInv, disk_ptr # NULL, NEW n \in 0..disk_size,
           file' = SubSeq(ToStore, 1, n), source' = ToStore
    PROVE  /\ file' \in Seq(Cell)
           /\ SourceIsImage'
           /\ IsPrefix(file', source')
           /\ n = disk_size => file' = source'
<1>1. ToStore \in Image /\ Len(ToStore) = disk_size /\ disk_size \in Nat
  BY ToStoreEffect, DiskFacts
<1>2. n \in Nat /\ n <= Len(ToStore)
  BY <1>1
<1>3. file' \in Image /\ Len(file') = n
  BY <1>1, <1>2, Prefix
<1>4. IsPrefix(file', source')
  BY <1>1, <1>2, <1>3 DEF IsPrefix
<1>5. n = disk_size => file' = source'
  BY <1>1, SubSeqFull DEF Image
<1>. QED BY <1>1, <1>3, <1>4, <1>5 DEF SourceIsImage, Image

LEMMA StoreStep ==
    ASSUME DiskInv, NEW n \in 0..disk_size, NEW host \in {"written", "short", "lost at close"},
           Store(n, host)
    PROVE  DiskInv'
<1>1. /\ disk_ptr # NULL /\ file' = SubSeq(ToStore, 1, n) /\ source' = ToStore
      /\ UNCHANGED <<images, disk_ptr, disk_size, cluster_ptr>>
      /\ host = (IF n = disk_size THEN "written" ELSE "short") \/ host = "lost at close"
      /\ last' = Did("store", host # "short", host)
  BY DEF Store
<1>2. /\ file' \in Seq(Cell) /\ SourceIsImage' /\ IsPrefix(file', source')
      /\ n = disk_size => file' = source'
  BY <1>1, Written
<1>3. last'.ok = (host # "short") /\ last'.host = host
  BY <1>1, Zenon DEF Did
<1>4. StoredWhole'
  <2>1. ASSUME last'.ok, last'.host # "lost at close" PROVE file' = source'
    <3>1. host # "short"
      BY <1>3, <2>1, Zenon
    <3>2. n = disk_size
      BY <1>1, <1>3, <2>1, <3>1
    <3>. QED BY <1>2, <3>2
  <2>. QED BY <1>2, <2>1, Zenon DEF StoredWhole
<1>. QED BY <1>1, <1>2, <1>4
         DEF DiskInv, DiskTypeOK, StoresWhatIsUsed

\* A process starts with the array of the program and no image.
LEMMA NewProcessState ==
    ASSUME NewProcess
    PROVE  /\ images' \in Seq(Seq(Cell)) /\ Len(images') >= Array
           /\ disk_ptr' \in 0..Len(images') /\ cluster_ptr' \in 0..Len(images')
           /\ disk_size' \in Nat
           /\ StoresWhatIsUsed'
<1>1. /\ images' = <<Ramdisk>> /\ disk_ptr' = 0 /\ cluster_ptr' = 0 /\ disk_size' = 0
  BY DEF NewProcess, NULL
<1>2. images' \in Seq(Image) /\ Len(images') = 1 /\ images'[1] = Ramdisk
  BY <1>1, Constants
<1>. QED BY <1>1, <1>2, Constants
         DEF StoresWhatIsUsed, Image

LEMMA CrashStep ==
    ASSUME DiskInv, NEW n \in 0..disk_size, CrashInStore(n)
    PROVE  DiskInv'
<1>1. /\ disk_ptr # NULL /\ file' = SubSeq(ToStore, 1, n) /\ source' = ToStore
      /\ NewProcess /\ last'.call = "start"
  BY DEF CrashInStore, Did
<1>2. /\ file' \in Seq(Cell) /\ SourceIsImage' /\ IsPrefix(file', source')
  BY <1>1, Written
<1>3. StoredWhole'
  BY <1>1, <1>2 DEF StoredWhole
<1>. QED BY <1>1, <1>2, <1>3, NewProcessState DEF DiskInv, DiskTypeOK

LEMMA DiskInvNext == DiskInv /\ [Next]_dvars => DiskInv'
<1> SUFFICES ASSUME DiskInv, [Next]_dvars PROVE DiskInv'
  OBVIOUS
<1>1. CASE LoadRamdisk
  BY <1>1, LoadRamdiskStep
<1>2. CASE LoadDisk
  <2>1. /\ file \in Image /\ UseNew(file) /\ UNCHANGED <<file, source>> /\ last'.call = "load"
    BY <1>2, DiskFacts DEF LoadDisk, Did
  <2>. QED BY <2>1, UseNewStep
<1>3. CASE CreateDisk
  <2>1. PICK image \in Garbage : UseNew(image)
    BY <1>3 DEF CreateDisk
  <2>2. image \in Image
    BY DiskImageAssumption DEF Image
  <2>3. UNCHANGED <<file, source>> /\ last'.call = "load"
    BY <1>3 DEF CreateDisk, Did
  <2>. QED BY <2>1, <2>2, <2>3, UseNewStep
<1>4. CASE LoadRefused
  <2>1. /\ disk_ptr' = 0 /\ disk_size' = DefaultSize
        /\ UNCHANGED <<images, cluster_ptr, file, source>> /\ last'.call = "load"
    BY <1>4, Constants DEF LoadRefused, Did
  <2>2. DiskTypeOK'
    BY <2>1, HostKept, DiskFacts, Constants DEF DiskTypeOK, Image
  <2>. QED BY <2>1, <2>2, HostKept, Constants
           DEF DiskInv, StoresWhatIsUsed
<1>5. ASSUME NEW c \in Changes, ChangeImage(c[1], c[2]) PROVE DiskInv'
  <2>1. c[2] \in Cell
    BY DiskImageAssumption
  <2>. QED BY <1>5, <2>1, ChangeStep
<1>6. CASE StoreRefused
  <2>1. last'.ok = FALSE
    BY <1>6, Zenon DEF StoreRefused, Did
  <2>2. UNCHANGED <<images, disk_ptr, disk_size, cluster_ptr, file, source>>
    BY <1>6 DEF StoreRefused
  <2>3. StoredWhole'
    BY <2>1, <2>2, Zenon DEF DiskInv, StoredWhole
  <2>. QED BY <2>2, <2>3 DEF DiskInv, DiskTypeOK, StoresWhatIsUsed, SourceIsImage
<1>7. ASSUME NEW n \in 0..disk_size, NEW host \in {"written", "short", "lost at close"},
             Store(n, host)
      PROVE  DiskInv'
  BY <1>7, StoreStep
<1>8. ASSUME NEW n \in 0..disk_size, CrashInStore(n) PROVE DiskInv'
  BY <1>8, CrashStep
<1>9. CASE Restart
  <2>1. NewProcess /\ UNCHANGED <<file, source>> /\ last'.call # "store"
    BY <1>9 DEF Restart, Did
  <2>. QED BY <2>1, NewProcessState, HostKept DEF DiskInv, DiskTypeOK
<1>10. CASE UNCHANGED dvars
  BY <1>10 DEF dvars, DiskInv, DiskTypeOK, StoresWhatIsUsed,
               SourceIsImage, StoredWhole
<1>. QED BY <1>1, <1>2, <1>3, <1>4, <1>5, <1>6, <1>7, <1>8, <1>9, <1>10 DEF Next

LEMMA DiskInvAlways == Spec => []DiskInv
  BY DiskInvInit, DiskInvNext, PTL DEF Spec

-----------------------------------------------------------------------------
(* The theorems. *)

\* Images, pointers and the file keep their types; no pointer dangles.
THEOREM DiskTypeCorrect == Spec => []DiskTypeOK
<1>1. DiskInv => DiskTypeOK
  BY DEF DiskInv
<1>. QED BY <1>1, DiskInvAlways, PTL

\* Whatever loads succeed and fail, changes never go into one image while
\* another is stored, and no more and no less of it is stored than there is.
THEOREM AlwaysStoresWhatIsUsed == Spec => []StoresWhatIsUsed
<1>1. DiskInv => StoresWhatIsUsed
  BY DEF DiskInv
<1>. QED BY <1>1, DiskInvAlways, PTL

\* After any stores, cut off or not, and any restarts the file is the beginning
\* of one image, and all of it when the store was reported as successful and
\* closing the file did not fail.
THEOREM AlwaysStoredWhole == Spec => []StoredWhole
<1>1. DiskInv => StoredWhole
  BY DEF DiskInv
<1>. QED BY <1>1, DiskInvAlways, PTL

\* Whatever happens to an image that was stored whole, restarts and other images
\* included, a load of its file gives back its size and all of its cells but the
\* FAT entries that FAT_init marks as used.
THEOREM AlwaysComesBackWhole == Spec => ComesBackWhole
<1> DEFINE Loaded == last'.call = "load" /\ last'.host = "file" /\ file = source
           Marked(image) ==
               /\ disk_size' = Len(source)
               /\ Len(image) = Len(source)
               /\ \A k \in 1..Len(source) :
                     image[k] # source[k] =>
                         /\ image[k] = Used
                         /\ k < FATSize \/ (k = FATSize /\ source[k] = 0)
<1>1. DiskInv /\ [Next]_dvars => [Loaded => Marked(images'[disk_ptr'])]_dvars
  <2> SUFFICES ASSUME DiskInv, Next, Loaded PROVE Marked(images'[disk_ptr'])
    OBVIOUS
  <2>1. LoadDisk
    <3>1. ~ LoadRamdisk
      BY DEF LoadRamdisk, Did
    <3>2. ~ CreateDisk
      BY DEF CreateDisk, Did
    <3>3. ASSUME LoadRefused PROVE FALSE
      <4>1. last'.host = "no memory"
        BY <3>3 DEF LoadRefused, Did
      <4>. QED BY <4>1
    <3>4. ASSUME NEW k, NEW v, ChangeImage(k, v) PROVE FALSE
      BY <3>4 DEF ChangeImage, Did
    <3>5. ASSUME StoreRefused PROVE FALSE
      <4>1. last'.call = "store"
        BY <3>5 DEF StoreRefused, Did
      <4>. QED BY <4>1
    <3>6. ASSUME NEW n, NEW host, Store(n, host) PROVE FALSE
      BY <3>6 DEF Store, Did
    <3>7. ASSUME NEW n, CrashInStore(n) PROVE FALSE
      BY <3>7 DEF CrashInStore, Did
    <3>8. ASSUME Restart PROVE FALSE
      <4>1. last'.call = "start"
        BY <3>8 DEF Restart, Did
      <4>. QED BY <4>1
    <3>. QED BY <3>1, <3>2, <3>3, <3>4, <3>5, <3>6, <3>7, <3>8 DEF Next
  <2>2. /\ source \in Image
        /\ images' = Append(images, FATInit(source)) /\ disk_ptr' = Len(images')
        /\ disk_size' = Len(source)
    BY <2>1, DiskFacts DEF LoadDisk, UseNew
  <2>3. FATInit(source) \in Image
    BY <2>2, FATInitEffect
  <2>4. images'[disk_ptr'] = FATInit(source)
    <3>1. images \in Seq(Image)
      BY DiskFacts
    <3>. QED BY <2>2, <2>3, <3>1, AppendProperties
  <2>5. Marked(FATInit(source))
    BY <2>2, FATInitEffect
  <2> HIDE DEF Marked
  <2>. QED BY <2>4, <2>5
<1>. QED BY <1>1, DiskInvAlways, PTL DEF Spec, ComesBackWhole
=============================================================================
