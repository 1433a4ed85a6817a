----------------------------- MODULE DiskImage -----------------------------
(***************************************************************************)
(* fs/tinyfs/code/disk_image.c and the calls of fs_operations.c around it: *)
(* where the image of TinyFS comes from and where it goes.  On the host    *)
(* (LOCAL_COMPILE) it is read from a file and written back; the file       *)
(* outlives the process, the image does not.  Opening, reading, writing,   *)
(* closing and malloc can fail, and the process can end at any point.      *)
(*                                                                         *)
(* An image is a sequence of cells: the FAT entries of clusters 0, 1 and   *)
(* 2, then everything else.  What TinyFS does with it is any change of any *)
(* cell: with a FAT that malloc made up, or a file entry that was never    *)
(* created, the FAT entries of clusters 0, 1 and 2 are freed and linked    *)
(* like any other.  An allocated image is never freed: free_disk has no    *)
(* caller.                                                                 *)
(***************************************************************************)
EXTENDS Integers, Sequences

CONSTANTS
    DefaultSize,    \* DEFAULT_CLUSTER_COUNT * DEFAULT_CLUSTER_SIZE
    Ramdisk,        \* DISK_IMAGE, the array compiled into the program
    Files,          \* images that files made earlier can hold
    Garbage,        \* what malloc returns, in cells
    Values,         \* what a cell holds
    Outside,        \* what is read behind the end of an array
    NoFile,         \* the file does not exist
    MaxImages,      \* bound of the model: images allocated by one process
    Changes         \* bound of the model: cells that calls change, and to what

Used   == 255      \* a FAT entry
FATSize == 3       \* entries FAT_init looks at

Cell == Values \cup {0, Used, Outside}

ASSUME DiskImageAssumption ==
    /\ DefaultSize \in Nat /\ DefaultSize > FATSize
    /\ MaxImages \in Nat
    /\ Changes \subseteq (1..DefaultSize) \X Cell
    /\ Ramdisk \in Seq(Cell) /\ Len(Ramdisk) \in FATSize..DefaultSize
    /\ Garbage \subseteq [1..DefaultSize -> Cell]
    /\ Files \subseteq Seq(Cell)
    /\ NoFile \notin Seq(Cell)

VARIABLES
    images,         \* the images in memory: the array, then what malloc gave
    disk_ptr,       \* s_disk_image_ptr of disk_image.c; 0 is NULL
    disk_size,      \* s_disk_image_size
    cluster_ptr,    \* s_disk_image_ptr of cluster_operations.c
    file,           \* the image file on the host
    source,         \* history: the image a store last opened the file for, or NoFile
    last            \* history: what the last call did

dvars == <<images, disk_ptr, disk_size, cluster_ptr, file, source, last>>

NULL == 0

\* The pointer of the array.
Array == 1

\* What a call reports, what became of the host's part in it.
Did(call, ok, host) == [call |-> call, ok |-> ok, host |-> host]

-----------------------------------------------------------------------------
(* Loading *)

\* Mutant: the entry of the root directory is set always.
FATInitForgets(image) ==
    [k \in 1..Len(image) |-> IF k <= FATSize THEN Used ELSE image[k]]

\* FAT_init, which cluster_init calls: clusters 0 and 1 are marked, the root
\* directory if it was free.  Nothing else of the image is looked at.
FATInit(image) ==
    [k \in 1..Len(image) |->
        IF k < FATSize \/ (k = FATSize /\ image[k] = 0) THEN Used ELSE image[k]]

\* Mutant: the clusters are initialised once only.
UseNewOnce(image) ==
    /\ images' = Append(images, FATInit(image))
    /\ disk_ptr' = Len(images')
    /\ cluster_ptr' = IF cluster_ptr = NULL THEN Len(images') ELSE cluster_ptr
    /\ disk_size' = Len(image)

\* cluster_init and rootdir_init on an image that was just allocated.
UseNew(image) ==
    /\ images' = Append(images, FATInit(image))
    /\ disk_ptr' = Len(images')
    /\ cluster_ptr' = Len(images')
    /\ disk_size' = Len(image)

\* load_ramdisk
LoadRamdisk ==
    /\ images' = [images EXCEPT ![Array] = FATInit(@)]
    /\ disk_ptr' = Array
    /\ cluster_ptr' = Array
    /\ disk_size' = DefaultSize
    /\ last' = Did("load", TRUE, "array")
    /\ UNCHANGED <<file, source>>

\* Mutant: a short read is not noticed.
LoadDiskShort ==
    /\ file # NoFile /\ file # <<>>
    /\ \E n \in 1..Len(file) : UseNew([k \in 1..Len(file) |-> IF k <= n THEN file[k] ELSE 0])
    /\ last' = Did("load", TRUE, "file")
    /\ UNCHANGED <<file, source>>

\* Mutant: the buffer of a read that failed is freed and used.
LoadDiskFreed ==
    /\ file # NoFile /\ file # <<>>
    /\ disk_ptr' = Len(images) + 1
    /\ cluster_ptr' = Len(images) + 1
    /\ disk_size' = Len(file)
    /\ last' = Did("load", TRUE, "file")
    /\ UNCHANGED <<images, file, source>>

\* load_disk with load_file_into_memory, all of it read.
LoadDisk ==
    /\ file # NoFile /\ file # <<>>
    /\ UseNew(file)
    /\ last' = Did("load", TRUE, "file")
    /\ UNCHANGED <<file, source>>

\* fs_load_disk_image when load_disk fails, whatever the reason: the file is
\* missing or empty, cannot be opened or read, or there is no memory for it.
\* create_disk takes the memory as malloc returned it.
CreateDisk ==
    /\ \E image \in Garbage : UseNew(image)
    /\ last' = Did("load", TRUE, "created")
    /\ UNCHANGED <<file, source>>

\* ... and create_disk fails as well: one pointer is lost, the other is kept.
LoadRefused ==
    /\ disk_ptr' = NULL
    /\ disk_size' = DefaultSize
    /\ last' = Did("load", FALSE, "no memory")
    /\ UNCHANGED <<images, cluster_ptr, file, source>>

-----------------------------------------------------------------------------
(* Using and storing *)

\* A call of fs_operations.c that changes the image, by way of the pointer that
\* cluster_operations.c keeps.  Nothing protects the FAT entries of the first three
\* clusters: free_clusters and cluster_write_8bit go where the chain leads.  Bound
\* of the model: they stay inside the image; the geometry is that of DefaultSize
\* whatever the size of the image.
ChangeImage(k, v) ==
    /\ cluster_ptr # NULL
    /\ k \in 1..Len(images[cluster_ptr])
    /\ images' = [images EXCEPT ![cluster_ptr][k] = v]
    /\ last' = Did("change", TRUE, "")
    /\ UNCHANGED <<disk_ptr, disk_size, cluster_ptr, file, source>>

\* What store_disk writes: disk_size cells from the pointer on.
ToStore ==
    [k \in 1..disk_size |-> IF k <= Len(images[disk_ptr]) THEN images[disk_ptr][k] ELSE Outside]

\* store_disk without an image, or with a file that cannot be opened
StoreRefused ==
    /\ last' = Did("store", FALSE, "not opened")
    /\ UNCHANGED <<images, disk_ptr, disk_size, cluster_ptr, file, source>>

\* Mutant: what fwrite returns is not looked at.
StoreUnchecked(n, host) ==
    /\ disk_ptr # NULL
    /\ host = (IF n = disk_size THEN "written" ELSE "short") \/ host = "lost at close"
    /\ file' = SubSeq(ToStore, 1, n)
    /\ source' = ToStore
    /\ last' = Did("store", TRUE, host)
    /\ UNCHANGED <<images, disk_ptr, disk_size, cluster_ptr>>

\* store_disk: fopen empties the file, n cells reach it.  A failing fwrite is
\* reported; cells that fclose fails to write are not, as nobody looks at what
\* fclose returns.
Store(n, host) ==
    /\ disk_ptr # NULL
    /\ host = (IF n = disk_size THEN "written" ELSE "short") \/ host = "lost at close"
    /\ file' = SubSeq(ToStore, 1, n)
    /\ source' = ToStore
    /\ last' = Did("store", host # "short", host)
    /\ UNCHANGED <<images, disk_ptr, disk_size, cluster_ptr>>

\* The process ends, in a store that got as far as n cells or outside of one,
\* and the program is started again.
NewProcess ==
    /\ images' = <<Ramdisk>>
    /\ disk_ptr' = NULL
    /\ disk_size' = 0
    /\ cluster_ptr' = NULL

Restart ==
    /\ NewProcess
    /\ last' = Did("start", TRUE, "")
    /\ UNCHANGED <<file, source>>

CrashInStore(n) ==
    /\ disk_ptr # NULL
    /\ NewProcess
    /\ file' = SubSeq(ToStore, 1, n)
    /\ source' = ToStore
    /\ last' = Did("start", TRUE, "cut")

-----------------------------------------------------------------------------

Init ==
    /\ images = <<Ramdisk>>
    /\ disk_ptr = NULL
    /\ disk_size = 0
    /\ cluster_ptr = NULL
    /\ file \in Files \cup {NoFile}
    /\ source = NoFile
    /\ last = Did("start", TRUE, "")

Next ==
    \/ LoadRamdisk
    \/ Len(images) <= MaxImages /\ (LoadDisk \/ CreateDisk)
    \/ LoadRefused
    \/ \E c \in Changes : ChangeImage(c[1], c[2])
    \/ StoreRefused
    \/ \E n \in 0..disk_size :
          \/ \E host \in {"written", "short", "lost at close"} : Store(n, host)
          \/ CrashInStore(n)
    \/ Restart

Spec == Init /\ [][Next]_dvars

-----------------------------------------------------------------------------
(* Properties *)

\* Every variable has its type, and the pointers point to images.
DiskTypeOK ==
    /\ images \in Seq(Seq(Cell)) /\ Len(images) >= Array
    /\ disk_ptr \in 0..Len(images) /\ cluster_ptr \in 0..Len(images)
    /\ disk_size \in Nat
    /\ file = NoFile \/ file \in Seq(Cell)

\* There are two copies of the pointer to the image, and its size is a third
\* variable.  After any sequence of loads, failed ones included, a store writes
\* the image the file system works on, or refuses: changes never go into one
\* image while another is stored.  It writes as much as the image has; of the
\* array, as much as an image of the default size has.
StoresWhatIsUsed ==
    disk_ptr # NULL =>
        /\ cluster_ptr = disk_ptr
        /\ disk_size = IF disk_ptr = Array THEN DefaultSize ELSE Len(images[disk_ptr])

IsPrefix(s, t) == Len(s) <= Len(t) /\ s = SubSeq(t, 1, Len(s))

\* The file is the beginning of the one image it was last opened for, and the
\* whole of it after a store that was reported as successful, unless closing the
\* file failed.  The image that was there before is gone in any case.
StoredWhole ==
    /\ source # NoFile => IsPrefix(file, source)
    /\ (last.call = "store" /\ last.ok /\ last.host # "lost at close") => file = source

\* A load of a file that holds all of the image it was opened for, in the same
\* process or after a restart, gives back the size of that image and every cell of
\* it but those that initialising it marks as used: the FAT entries of clusters 0
\* and 1, and that of the root directory if it was stored as free.  Of a file that
\* a store left cut off nothing is said: load_disk takes it for a whole image.
ComesBackWhole ==
    [][(last'.call = "load" /\ last'.host = "file" /\ file = source) =>
           LET image == images'[disk_ptr']
           IN  /\ disk_size' = Len(source)
               /\ Len(image) = Len(source)
               /\ \A k \in 1..Len(source) :
                     image[k] # source[k] =>
                         /\ image[k] = Used
                         /\ k < FATSize \/ (k = FATSize /\ source[k] = 0)]_dvars
=============================================================================
