# A TLA+ model of bios_qemu_tz_arm

This directory specifies, model-checks and proves properties of the small BIOS
that QEMU runs before OP-TEE and Linux (`src/bios`), of its console driver
(`src/drivers`), of the device tree library it edits the kernel's tree with
(`src/libfdt`) and of the C library under both (`src/libutils`).

- [The system](#the-system)
- [Modules](#modules)
- [What each run checks](#what-each-run-checks)
- [What is proved](#what-is-proved)
- [Where the code and its text disagree](#where-the-code-and-its-text-disagree)
- [Assumptions and fairness](#assumptions-and-fairness)
- [Not modelled](#not-modelled)
- [Plan](#plan)

## The system

One image in flash holds the BIOS, the secure world (OP-TEE), a Linux kernel, a
root file system and possibly a device tree. On reset the BIOS copies itself to
RAM, takes the memory of the secure world out of the device tree, copies the
secure world to that memory and the normal-world images to theirs, runs the
secure world, and is returned to in the normal world, where it completes the
kernel's tree and jumps to the kernel. One CPU runs, with every interrupt
masked; the only thing that runs beside the BIOS is the UART.

| component | state | operations | what makes it hard | what makes it correct |
|---|---|---|---|---|
| boot sequence (`bios/entry.S`, `bios/main.c`, `platform_config.h`, `kern.ld.S`) | RAM; the globals `kernel_entry`, `dtb_addr`, `rootfs_start`, `rootfs_end`; the registers the two worlds are entered with | `reset`, `main_init_sec`, `open_fdt`, `copy_ns_images`, `main_init_ns`, `call_kernel` | addresses computed from sizes, the flash that only the secure world can read, globals that have to live through another program's run, a `CHECK` at each step | nothing lands on the running BIOS or on an image that was put in place; each world finds what its registers say; the kernel's tree has every edit |
| secure memory reservation (`tz_res_mem*` of `main.c`) | the part of the range not found yet, the property being built | `tz_res_mem_check_avail`, `tz_res_mem_carve` | regions in any order, overlapping, spread over the range, wrapping around, in one or two cells | boots exactly when the memory is there, terminates, and tells the kernel of no secure address |
| console (`drivers/uart.c`, `msg`, `check`) | the PL011's two FIFOs | `uart_init`, `uart_flush_tx_fifo`, `uart_putc`, `uart_have_rx_data`, `uart_getchar`, `msg`, `check` | the device moves between the read of a flag and the access it guards | no character is lost, and a message gets out even if the BIOS hangs after it |
| tree, read-write (`libfdt/fdt_rw.c`, `fdt_wip.c`) | one blob: a header, reservations, a structure block, strings | 13 edits | offsets of everything behind an edit change, five header fields with them; partial failure; no space | each edit does to the tree what it promises or nothing |
| tree, read-only (`fdt_ro.c`, `fdt.c`) | none | walks and searches | they run on any blob whose header is in order, one that is still being written among them | they answer as the tree would |
| tree, sequential write (`fdt_sw.c`, `fdt_empty_tree.c`) | a blob growing from both ends | `fdt_create` .. `fdt_finish`, `fdt_move` | order of calls, the two ends meeting, failures that have used up space | a finished blob is whole and says what was written |
| `dlmalloc.c` | chunks with their sizes in memory, 128 lists, `last_remainder`, `top`, counters | `malloc`, `free`, `realloc`, `memalign`, `valloc`, `calloc`, `malloc_trim`, `mallopt` | chunks split, joined and moved by every call, an `sbrk` that others use too | clients have blocks apart that keep what is in them; no memory is lost |
| `malloc_wrapper.c` | the heap of `sbrk` or of `basic_malloc`; the queue of the debug list | the same, `mdbg_check` | the queue is in the blocks' own memory | as above, and an overrun block is found |
| `libutils`, the rest | none | `snprintf`, `qsort`, the string functions, division | lengths, alignments, terminators | as their C counterparts |

How they interact: the boot calls the reservation, which calls libfdt, which
works on the blob at `DTB_START`; `fdt_open_into` copies the blob to where the
kernel will look for it and later edits are made to that copy; every step may
call `msg`, and every failure ends in `check`, which prints and loops for ever.
There is no message passing and no shared memory between concurrent programs;
the two concurrent actors of this system are the CPU and the PL011. The two
worlds share RAM, one after the other.

The hazards found in this survey, each at its line, are in `PROJECT.json`
("hazards"), with the properties that watch over them or a note on why none
does yet.

## Modules

| module | what it is |
|---|---|
| `SecureReservation` | what `tz_res_mem` promises: the memory is a set of addresses, and the reserved ones are taken out, or the boot stops and the tree is as it was |
| `TzResMem` | `tz_res_mem`, `tz_res_mem_check_avail` and `tz_res_mem_carve`, one action per loop iteration and per branch |
| `Boot` | reset to kernel, one action per copy, edit or call; `tz_res_mem` is the step `SecureReservation` promises |
| `Uart` | `msg`, `check` and the PL011 driver against the device |
| `FdtBlob` | a blob, and the walks over it the editing functions use |
| `FdtRw` | the functions of `fdt_rw.c` and `fdt_wip.c`, each an operator from a blob to a blob and a result |
| `Fdt` | any sequence of calls of those functions, one action per function |
| `FdtTree` | what those functions promise, on a tree |
| `BiosFdt` | what `main.c` does to the tree, on the blob: the offsets it holds, its walk, its `CHECK`s |
| `FdtSw` | the functions of `fdt_sw.c` and `fdt_empty_tree.c`, operators on a blob |
| `FdtRo` | the functions of `fdt_ro.c` and `fdt.c` the editing functions do not use |
| `FdtSeq` | a caller that writes a blob with `FdtSw` and looks at it with `FdtRo` after each call |
| `FdtWriter` | what the sequential functions promise, on a tree with a node that is open |
| `DlMalloc` | the allocator of `dlmalloc.c` on its memory |
| `MallocWrapper` | `malloc_wrapper.c` in its three builds: over `DlMalloc`, over `basic_malloc`, and with the debug list |
| `Malloc` | clients of malloc, one action per call |
| `Blocks` | what malloc promises its clients |
| `CString`, `Kprintf`, `Qsort`, `DivMod` | the rest of `libutils`: string functions, `snprintf`, `qsort`, the compiler's division |
| `LibUtils` | calls of those functions, and what each has to return, written without looking at how |
| `MC*` | the instances for TLC; `MCBlob` builds blobs for three of them |
| `TzResMemProofs`, `BootProofs`, `UartProofs`, `FdtSeqProofs`, `FdtProofs`, `BiosFdtProofs` | the theorems about each component |
| `FdtRwProofs` | what the three proofs about blobs share: cells, `Poke`, `Memmove`, counting; tags, the walks, edits of the structure block; what each function of `FdtRw` does to a blob |
| `Recursion` | induction and recursion: least numbers, walks that get to an end, the lists they make |

Composition: `Boot` takes `SecureReservation` as the step of `tz_res_mem`, and
`TzResMem` is shown to implement `SecureReservation`; so each uses the other's
result. `Fdt` is shown to implement `FdtTree`, `FdtSeq` (which composes `FdtSw`
with `FdtRo`) `FdtWriter`, and `Malloc` `Blocks`. `BiosFdt` composes the same
functions in the order of the boot: an edit that is one element of a set in
`Boot` is a call on a blob there, and `KernelTree` says that the tree is the one
those edits should give.

### TzResMem

A region is a record of numbers; how wide an entry is in the tree (one or two
cells) is a field of the tree, and sums wrap around at `W64` as `uint64_t` does.
`pc` is where `tz_res_mem` is; `res_start` .. `offs` are the variables of the
C code, `data` the array on the stack. `FoundAll`, `FoundStart`, `FoundEnd` and
`FoundNothing` are the paths through the body of the search loop, `EndPass` the
condition of the `do`-`while` and the `CHECK(1)` after it, `CarveRegion` the
body of the second loop with `Kept` for its four branches, `EndCarve` the
`CHECK` of the length, `SetReg` `fdt_setprop`, which may find no room. Values
are written through `PutVal`, the cast to `uint32_t` of `put_val`. The messages
are left out, and with them the loop that only prints. A property whose length
is not a multiple of an entry is left out as well (a hazard with a note).

### Boot

RAM is a function from the objects the boot places to extents; writing one
takes away what it overlaps. A copy from the flash in the normal world is
garbage (`CopyImage`). Writing over the BIOS, its stack or its globals ends in
the pc value "lost", a `CHECK` that fails in "hang". A tree is the set of edits
made to it, `copy_dtb` copies the set. The sizes of the images, the header of
the secure blob, the zones of memory in the tree, the libfdt calls that fail and
the build option `TZ_UART_SHARED` are the fields of an input, chosen at the
start. `CopyRootfs` adds `DTB_MAX_SIZE` twice, as the code does.
What the secure world does with its own memory is external: `SecureWorld` takes
all of it and returns in the normal world.

### Uart

`pc` follows `msg` into `uart_putc` with one action for the read of the flag
register and another for the access to the data register; `Transmit` and
`Receive` are the device's and may come between any two. A reset of the CPU may
find the device in any mode with characters left in its FIFO. `given`, `wire`,
`accepted`, `got`, `said` and `leftover` are history variables: what went in and
what came out.

### FdtBlob, FdtRw, Fdt and FdtTree

The buffer is a function from addresses to cells. A cell is a byte, but the
bytes of a word are tagged with the word they are of (a tag, a length, an offset
of a string): numbers are not put together from bytes, but every address,
offset, length and alignment is that of the code (`FDT_TAGSIZE` is 4, the
header 40). The header fields are fields of a record. A node name is a model
string with a length and the name it has without its unit address; a property
name has the strings it ends in, so that one can be found at the end of another,
as `_fdt_find_string` does.

Each function of the library is an operator from a blob to the blob it leaves
and what it returns, error paths included: `AddProperty` leaves the name it
added when there is no space for the property. `Checked` is
`FDT_RW_CHECK_HEADER`. Comparisons the code makes unsigned are: a negative
offset is too large. `fdt_open_into` on the blob's own buffer may leave any
`boot_cpuid_phys` (see the findings), a nondeterministic choice.

`view` is a history variable: the tree a reader would find in `fdt`, kept so
that it is not computed again for each property. `call` is the last call, its
arguments as paths instead of offsets, and what it returned; `Fdt` and `FdtTree`
share it, so the refinement compares return values too. `given` is the offset
itself, for "the same call again" in `RetryIsFree`.

### BiosFdt

One action per call of libfdt with the `CHECK` after it: `OpenFdt` (the tree of
the image is copied, the one QEMU left is opened in place), `TzResMem`, one
iteration of the loop of `tz_res_uart` in `PassNode`, `DeleteUart1` or
`NoMoreNodes`, the four edits of `tz_add_optee_node`, `Pack`, `CopyDtb`,
`ReopenFdt`, the three properties of `/chosen`, `EnterKernel`. `offs` is the
variable of that name: it is not recomputed, so an edit that moves what it
points at shows. Of `tz_res_mem` the module has what it asks of the tree and
that it sets one of the values `Carved`; how the value is computed is
`TzResMem`'s. A string is its bytes with the 0 at the end; `HasRegBase` reads
the cells behind the property if the property is too short, as `get_val` does.
A `compatible` that does not end in 0 is left out.

### FdtSw, FdtRo, FdtSeq and FdtWriter

The blob is that of `FdtBlob`. `magic` is "SW" until `fdt_finish` and "FDT"
after it; strings are at negative offsets, as the code has them, until
`fdt_finish` moves them and corrects each `nameoff`. The functions are operators
from a blob to a blob and a result, with each check in the order of the code.
`fdt_create_empty_tree` is a sequence of those calls, so it may fail at any.
`FdtSeq` calls them in the order they are made for, goes on after a failure and
after `fdt_finish`, and moves the blob to another buffer at any time. `view` is,
as in `Fdt`, the tree a reader would find; `ReadersAgree` says that there is one
(`IsReadable`) and compares each function
of `FdtRo` with it, for every offset, name, path, value and buffer length.
How a path is cut at its slashes is left out: a path is a sequence of names.

### DlMalloc, MallocWrapper, Malloc and Blocks

Memory is a function from word addresses to numbers. Heads and feet of chunks
and the data of blocks are in it; a head or foot written too early or too late
destroys a datum, and a datum read as a head shows. The links of a free chunk
are the number `LINK` in memory, the lists they make are sequences. Branches
follow the code in its order: exact bin, `last_remainder`, the binblocks, top,
`malloc_extend_top`; `realloc` forward, into top, backward, both, and by copying.
The code that `HAVE_MMAP` would add is not built and not modelled.
`MallocWrapper` has `sbrk` with the page it clears, and `basic_malloc`, which
gives nothing back. The debug list is modelled over `basic_malloc`: with
dlmalloc the wrapper has no `sbrk` in that build. The queue of `queue.h` is
modelled as its links, since an overrun may reach one.
A client writes a number of its own into every word it gets, so that
`GivesBlocks` sees a word that the allocator touches; `free` leaves garbage.

### CString, Kprintf, Qsort, DivMod and LibUtils

These functions keep no state, so `LibUtils` has one behaviour per call: a
choice of arguments and memory, and one step. A loop that only looks is the
place where it ends; one that writes goes on unit by unit, because what it does
to overlapping objects depends on that. newlib has most functions twice, by
bytes and by words: the `-Os` of the release build takes the first, `DEBUG`
(`-O0`) the second, and `fast` says which. A format is a sequence of tokens.
`LibUtils` says what each function is for without loops: a slice, the least
index, a numeral, a sorted permutation.

## What each run checks

| run | instance | properties |
|---|---|---|
| `tz_carve` | up to 3 regions from 5 starts and 4 lengths, good and bad trees | `TypeOK`, `AvailSound`, `RefusedOnlyIfMissing`, `SecureMemHidden`, `InBounds`, `PassesMakeProgress`, `Termination`, `GoodTreeBoots` |
| `tz_reserves` | the same for trees whose regions all touch the range | `CarveExact`, `Reserves` (refinement of `SecureReservation`) |
| `tz_other_regions` | regions that do not touch the range | `OnlyReservedGoes` is violated |
| `boot` | the vexpress memory map in KiB, 426 inputs | `NeverLost`, `SecureHandOver`, `KernelHandOver`, `KernelTreeComplete`, `NothingOverwritten`, `GoodInputBoots` |
| `boot_no_paged` | the same | `PagedArgument` is violated |
| `uart_console` | FIFOs of 2, a buffer of 4, 2 messages, 3 characters received | `TypeOK`, `NothingLost`, `MessagesComplete`, `ReceivedInOrder`, `HeardToTheEnd` |
| `fdt_edit` | every three calls on three blobs | `BlobIsSound`, `BlobIsWhole`, `EditsTheTree` (refinement of `FdtTree`), `OffsetsKept`, `FailureIsFree` |
| `bios_fdt` | 295 blobs, from plenty of space to none | `HeldOffsets`, `KernelTree`, `HangsForCause`, `WalkAdvances` |
| `fdt_bad_parent` | one call | `BadParentIsRefused` is violated |
| `fdt_write` | every tree of two names and two properties that fits buffers of 39, 44, 80 and 115 bytes, and two blobs that are only read | `BlocksApart`, `ReadersAgree`, `WritesTheTree` (refinement of `FdtWriter`), `NoSpaceIsDue` |
| `malloc` | eleven clients, up to nine calls each | `HeapWhole`, `Accounted`, `GivesBlocks` (refinement of `Blocks`), `FailsForCause` |
| `libutils` | 24159 calls | `CallsAsSpecified`, `FormatsAsAsked` |

Why these bounds are enough for what the runs are meant to show:

- *TzResMem.* `W32` is 12, `W64` 144 (24 in `tz_reserves`), the reserved range
  3 .. 5. The code compares the ends of a region with the ends of the range:
  the starts lie in front of the range, at its beginning, in it, at its end and
  behind it, the lengths end a region in each of those places, beyond one cell,
  and (143) by wrapping around. With three regions a pass can be needed for each
  end of the range and one more to find nothing; the theorems take away the
  bound.
- *Boot.* The addresses are those of `platform_config.h`. Sizes go from empty to
  all of the flash, the tree is just at its limit and one above, the header is
  wrong in every field and its load address lies in each part of the map; each
  call of libfdt fails once, with `uart1` shared or not. The `virt` map
  satisfies `LayoutAssumption` too; the theorems hold for it.
- *Uart.* A FIFO of 2 can be empty, partly full and full; a buffer of 4 cuts a
  message in front of its end of line; two messages show that the second does
  not overtake the first. Three characters received, of three kinds, fill the
  FIFO and come once more after one was read, so that an order can be wrong.
- *Fdt.* The blobs have nodes with and without properties, NOPs, reservations,
  gaps between blocks, blocks in the wrong order, no space, 18 and 36 bytes of
  space (an edit fits and the next does not). Values are shorter and longer than
  a word. Three calls are needed for: add a name, fail for space, fail again;
  add a node, add a property to it, delete the node in front of it; NOP a
  property, then add a subnode.
- *BiosFdt.* `uart1` is absent, alone, with a node in it, the second of two,
  below a bus, there twice, and there are nodes that only have its name, its
  address or its `compatible`; with one and with two address cells; blocks in
  order and out of order. What the BIOS needs is missing one thing at a time. A
  property of 0 to 240 bytes takes the space away a word at a time, so each of
  the nine calls that need space is the first to fail in some behaviour.
- *FdtSeq.* The smallest buffer is a byte too short for a header, the next holds
  a header and not the map of reservations, the third
  no more than an empty tree, and in the largest the structure and the strings
  meet after every kind of call, so that each call fails for space in some
  behaviour, is made again, and is made after a move to a larger or smaller
  buffer. The two blobs that are only read have what a writer of 115 bytes has
  no space for: aliases, both kinds of phandle, lists of `compatible` strings,
  NOPs, four levels. Buffers of `fdt_get_path` are exact, one short and one long.
- *Malloc.* A page is 64 bytes and the heaps have up to 40 pages. Each client
  has the few operations and sizes that bring one part of the allocator into
  every order: small bins and `last_remainder` (four blocks of three sizes, nine
  calls), `realloc` in all its directions, bins above 512 bytes with several
  sizes in one, memory given back and taken again, another caller of `sbrk`, a
  heap that begins and ends within a page. Sizes wrap at 2^14 instead of 2^32.
  Two clients make requests at the edge: 8180 is the largest that is positive
  when it is padded, 8164 the largest for which realloc's comparison with the top
  is right, 8192 the first that is negative. The second `sbrk` of
  `malloc_extend_top` fails for the first top (`Cornered`) and for one that
  begins behind what someone else got (`CutOff`).
- *LibUtils.* A word is two bytes of two bits, and the reading functions get
  every content of four bytes across words; what the word loops do depends on where a null or a
  difference is in its word and on the alignment, of which there are two, and on
  lengths around one word and around four. `short`, `int` and `long long` have
  3, 5 and 7 bits: that keeps the widths apart, and with 7 the longest octal
  number with its 0 fills `bf` exactly as it does with 64. `qsort` goes through
  its median of three at 7 to 40 elements and its median of nine at 41 and 48.
  Division is complete for 4 bits.
- `CHECK_DEADLOCK FALSE` is said where the program may stop: a caller of libfdt
  or of malloc that has made its calls (a bound), a heap whose assertion failed,
  a call that has returned, a console with nothing left to print.

Three properties deserve a word. `Accounted` says what the counters of dlmalloc
stand for: they end with the top; or, once a second `sbrk` has failed, with the
break, and then `sbrk` has no page left to give. `InBounds` speaks of trees whose regions do not
overlap: with two that both contain the range strictly, the array on the stack
is overrun before the `CHECK` that would say so. `FailureIsFree` has two parts.
`RetryIsFree` says that a call that failed and is made again neither succeeds nor
uses up space; the first failure may, by the name it leaves in the strings
block. `FailuresUndone` says that this name is all it leaves: no node, property,
offset of a node or reservation has changed.

## What is proved

For every value of the constants that satisfies the assumptions in the modules
(no bound on the number of regions, the sizes, the length of a message):

| module | theorems |
|---|---|
| `TzResMemProofs` | `TypeOK`, `AvailSound`, `RefusedOnlyIfMissing`, `SecureMemHidden`, `PassesMakeProgress`, `CarveExact`, `InBounds`, and that each step is a step or a stutter of `SecureReservation` |
| `BootProofs` | `TypeOK`, `NeverLost`, `SecureHandOver`, `KernelHandOver`, `KernelTreeComplete`, `NothingOverwritten` |
| `UartProofs` | `TypeOK`, `NothingLost`, `ReceivedInOrder`, `MessagesComplete` |
| `FdtRwProofs` | `CountsReservations`: `fdt_num_mem_rsv` counts the entries in front of the first of size 0 |
| `FdtSeqProofs` | `BlocksApart`, `NoSpaceIsDue`, `WritesTheTree` (each step of `FdtSeq` is a step or a stutter of `FdtWriter`), and `IsReadable`, the part of `ReadersAgree` that says a blob can be read to its end |
| `FdtProofs` | `BlobIsSound`, `BlobIsWhole`, `OffsetsKept` and `FailureIsFree`, if `NOTFOUND` is not among the wrong offsets; `EditsTheTree` (each step of `Fdt` is a step or a stutter of `FdtTree`), if none of them is an error but `BADOFFSET`; and under them, here and in `FdtRwProofs`, two lemmas for each of the 13 functions, one about the blob and one about the tree |
| `BiosFdtProofs` | `HeldOffsets`, `WalkAdvances` |

The arguments:

- *The search is sound and complete.* `AvailSound` is not inductive: it speaks of
  the end of the search. The invariant says what has been found so far: every
  reserved address outside `res_start .. res_end - 1` lies in a region, and
  within a pass no region read so far covers the beginning or the end of what is
  left, unless something was found in this pass. So when a pass has found
  nothing, the first address that is left is in no region, and refusing is right;
  when nothing is left, every address is in some region.
- *The carving hides the secure memory.* Each region put into `data` is apart
  from the reserved range, whatever branch it took; the cast of `put_val` can
  only shorten a region because the reserved range and what is below it fit in
  32 bits. For regions that touch the range an address is in `data` exactly if
  it is in a region that was read and not reserved.
- *The array is long enough.* Only a region with addresses on both sides of the
  reserved range puts two. Two such regions both have the first reserved
  address, so among regions that do not overlap there is one at most: `OneSplits`
  says that no more regions have been put than read, or one more once one of
  them has been split.
- *The copies miss each other.* The places are sums of the sizes. `Placement`
  says that each object is at the place computed from the input or nowhere, and
  from which pc value on it is there; `LayoutAssumption` (the order of the areas
  in `platform_config.h` with room for a flash of `UART0_BASE` bytes) makes the
  places disjoint. `FlashReadable` says that every copy from the flash comes
  before the secure world, `EditsSoFar` which edits both trees have at each pc
  value.
- *The FIFO.* `Polled` says that a flag seen by the CPU still holds when it acts
  on it, because the device only makes room in one FIFO and only adds to the
  other; then what is on the line, in the FIFO and in the CPU's hands is what was
  given.

- *The messages.* `GivenSoFar` says what `uart_putc` has been given at each
  point of `msg`: all messages before, and of this one the characters in front of
  `p`, each `'\n'` with its `'\r'` or between the two. `Wired` flattens a sequence
  of sequences, so one lemma says what `FlattenSeq` does to one more element.
- *The two ends of a blob that is written.* `BlocksApart` is not inductive: with a
  negative `Room` `_fdt_grab_space` refuses nothing. The invariant (`BlobOk`)
  adds that the map begins at `FirstReservation`, that there are no strings
  before there is structure, and that a blob with an entry in its map has `Room`
  (`AddReservemapEntryIs`); nodes and properties come after an entry of size 0, so
  to a blob that has (`InUse`). For `fdt_create_empty_tree`, whose `fdt_open_into`
  looks for that entry, `EmptyMapped` follows it through the calls.
- *A blob that is written says the tree.* A call adds to the end of a block, and
  the tree is what one reads who begins at its start. `Says(b, o, v)` is the
  state of that reading at one offset: one who has gone over the tags in
  front of `o` has drawn `v`. So a call adds one step to it: behind a tag that is
  put at the end a reader has drawn what `FdtWriter` draws for that call
  (`BeginNodeWrites`, `EndNodeWrites`, `PropertyWrites`). `Writing`, the
  invariant until `fdt_finish`, is `Says` at the end of the structure; that
  each `nameoff` is in the strings, counted from their end; and that each string
  is there to its end. The last two are what `fdt_finish` needs: it takes
  space for the last tag, moves the strings down behind the structure, and corrects
  each `nameoff`. That no tag is hit by either and that the strings are the old
  ones at the corrected offsets is `FinishWrites`, and `Closed` is the
  invariant from there on; `fdt_move` keeps both (`CopiedWrites`,
  `CopiedCloses`). `IsReadable` and the refinement follow: `view` is a function
  of the blob, what a call does to one is what the step of `FdtWriter` does to
  the other, and one that fails leaves both (`BeginNodeDoes` to `MoveDoes`, one
  lemma for each function; `CreateEmptyTreeDoes` for their sequence and the
  `fdt_open_into` and `fdt_pack` at its end).
- *A call that fails for space.* `NoSpaceIsDue` compares the space before with what
  the call needs, the name of the property only if no string ends with it. A
  property that failed has put its name there, so the same call made again finds
  it; the invariant `Settled` says that of the last call.
- *A blob that is edited.* `BlobIsWhole` reads the blob from its beginning, so
  one edit changes all it says. `Sound` says it from tag to tag instead: at a
  multiple of `FDT_TAGSIZE` is a tag or there is none, behind a tag with what
  belongs to it is the next one and none in between, a property has its name in
  the strings block, the map of reservations has an end, and the blocks are
  apart and in the buffer. Each function is then four facts. Its searches end at
  a tag or return an error (`GetPropertyIs`, `SubnodeOffsetIs`, `PlaceIs`,
  `NodeEndOffsetIs`). The splice makes `old` addresses `new` ones, moves
  what is behind them and corrects the fields (`SpliceStructIs`), or there is no
  space and the blob is as it was. What is written into the new addresses is
  sound from one tag to the next (`PropertyWritten`, `SubnodeCellsAre`,
  `NopCellsAre`). What was sound in front of it and behind still is
  (`EditedIsSound`). `fdt_pack` and `fdt_open_into` move the blocks instead,
  each one's `memmove` behind the one before it (`PackBlocksPacks`). The
  inductive invariant is `Viewed`: `Sound`, `Ordered` (below), and that what the
  caller has read is what the blob says, its offsets among those of tags.
- *The nodes stay nested.* That tags match, and that a node's properties come
  before its subnodes and none twice, is what a reader finds who goes over the
  whole block; an edit cannot be followed through such a reading. `Ordered` says
  the same by marks on the tags: `d[o]` is the number of nodes open in front of
  the tag at `o`, `f[o]` the names a property there may still have, and `OnTag`
  relates the marks of one tag to those of the next. That there are marks is the
  same as that the reader finds the blob whole (`OrderedIsWhole`,
  `WholeIsOrdered`). An edit is right when there are marks for what it puts in
  that agree with those in front and behind (`Mends`, `EditedIsOrdered`): a tag
  that says the same as the old one (`SameTagMends`); nothing, or NOPs, for what
  opens and closes as many nodes (`RemovalMends`, `NopsMend`; that
  `_fdt_node_end_offset` finds such an end is `NodeEndOffsetIs`); a property
  whose name the node has not (`NewPropertyMends`: `fdt_get_property` has looked
  up to the first tag that is no property's, `GetPropertyIs`); a node in front
  of a tag that is no property's (`NewNodeMends`, `PlaceIs`). And a string keeps
  its offset in the strings block in every edit (`ReshapedNames`,
  `StringAdded`), or a property would change its name.
- *The offsets the BIOS holds.* The invariant (`Held`) says where the BIOS is by
  the path of the node at `offs`, and that the blob is sound, ordered, and has
  its root at offset 0, from which every edit but those of `/firmware/optee`
  starts. What a reader has come to at a tag depends on what is in front of it
  (`Unmoved`), so a node whose tag and name end in front of an edit has the
  path it had (`NodeIsStill`). `fdt_setprop` moves only what is behind the
  node it is given (`SetPropStays`), `fdt_del_node` what is behind the node in
  front (`DelNodeStays`), and `fdt_add_subnode` leaves at the offset it returns a
  node whose path is the parent's and the name (`AddSubnodeIs`, `NewNodeIs`).
  So the second edit of `/firmware/optee` finds it where the first did.
  (For any caller the same is `OffsetsKept`.)
  `tz_res_uart` keeps no offset over its edit at all; `WalkAdvances` needs
  the invariant too, as a walk goes forward only from a tag of a sound blob.
- *A call that failed is made again.* A splice that returns an error has moved
  nothing (`SpliceFails`), so a function that fails leaves the blob alone
  (`EditsFail`, `AddSubnodeFails`, `OthersFail`), but for `fdt_setprop` and
  `fdt_appendprop`, which may have added the name (`AddPropertyFails`). A name that
  was added is found (`AddedIsFound`), and nothing is added while it is. The
  invariant (`Retried`) says of the last call, if it was one of these two and failed:
  its name is in the strings block, or the call made of the blob as it is does
  not touch it.
- *A call that failed has changed nothing that is read.* All but `fdt_setprop` and
  `fdt_appendprop` leave the blob as it is. These two have at most added a string
  behind the others (`SetPropLeaves`), and to a reader the two blobs are
  alike: the tags and what they hold are the same cells, and every name a
  property of a sound blob has is found where it was (`MoreStringsAreAlike`). That
  blobs with the same tags and names are read to the same tree, each
  node at the same offset, is `ContentsAreAlike`. Nor do such edits touch the
  map: every function but `fdt_add_mem_rsv` and `fdt_del_mem_rsv` leaves the
  reservations as they were (`Kept`), whether it fails or not.
- *A blob that is edited says the tree.* `FdtTree` knows paths, the blob offsets,
  and the two are alike only while no two nodes have one path: a function that
  is given an offset edits one node, the reader puts all nodes of a path
  together. That no path is there twice is an invariant (`Told`, in terms of a
  *story*: the offsets of all tags in order and what a reader has drawn in front
  of each). `fdt_add_subnode` keeps it because it has searched the parent for the
  name, and the search is right because `Told` holds (`AddSubnodeTurns`); of
  `fdt_set_name` the caller is asked to (`Unique`). The story of the edited
  blob is made from that of the old one: a property changes what the tags of
  its own node behind it have drawn, at its own path and nowhere else
  (`PropertiesTold`); deleting or NOPing a node leaves out the tags between its
  two ends, which are those of the nodes under it (`StaysOutside`,
  `StaysInside`); a new node puts two in; a new name changes one name in all
  paths under the node, and no two of them become one because the new path was
  free (`RenamedApart`, `RenamedTold`). Then the tree at the end is the tree
  `FdtTree` promises, the reservations are the same, and so is the order of the
  blocks: that is `Turns`, which one lemma says of each function
  (`SetPropTurns` to `SetNameTurns`), with the error that is due in each case
  in which it does nothing. `fdt_pack`, `fdt_open_into` and the reservations leave
  the cells of the structure block as they are (`ReadAlike`), so the story too.
- *Where `NOTFOUND` comes in.* Without the assumption the theorem is false: the
  third finding below writes in front of the structure block. Any other number,
  positive or negative, is refused by every function, and that is part of what is
  proved; `EditsTheTree` also says with which error, so of the negative ones only
  `BADOFFSET` is left: `fdt_del_node` of, say, -1 returns the -1. `BiosFdtProofs` does not need it: that the BIOS passes only offsets it
  has looked at for being negative is part of the invariant.
- *Recursion.* The walks are recursive functions. That there is a function
  that satisfies such a definition is itself proved (`WalkIsDefined`,
  `ListIsDefined`, `CountIsDefined`), from a distance that gets less with every step: that
  to the end of the block. What a walk gives is then proved by induction over
  that distance, by the least number for which it would be wrong
  (`LeastNumber`, `WalkEndsIn`, `ListIs`).

The assumptions are those named in the modules. `CallerAssumption` (`Fdt`): the
blobs a caller begins with are `Sound` and `Whole`, as dtc makes them; TLC
evaluates it for each blob of the instances. `TreeAssumption`: in these blobs no
two nodes have one path, as dtc sees to, and values are bytes. `DtbsAssumption` (`BiosFdt`) says the
same of the trees the BIOS is started with, and that they begin with a root,
whose name is empty; `WrittenAssumption`, that what the BIOS writes has names
and lengths. `SizesAssumption` and
`NamesAssumption` (`FdtBlob`): sizes are numbers, a tag has one, and the first of
a string's tails is the string. `BlobsAssumption` (`FdtSeq`) says of blobs that are
only read what `CallerAssumption` does; `WriteAssumption` that values are
sequences of numbers, no name is longer than the header and an entry of the map,
and entries of size 0 are left to
`fdt_finish_reservemap`; `TailsAssumption`, that a tail of a name has its own
length.

Only model-checked: liveness (`Termination`, `GoodTreeBoots`, `GoodInputBoots`,
`HeardToTheEnd`, the liveness part of `Reserves`), which needs fairness and
ENABLED and is out of the prover's reach; that the BIOS leaves the kernel the
tree it should and stops only for cause (`KernelTree`, `HangsForCause`); what the readers return (`ReadersAgree` but for `IsReadable`); and
`Malloc` and `LibUtils`, whose properties relate a search or a loop to a result
that is defined over all of a heap or an array.

## Where the code and its text disagree

Each of these has a run that TLC finds violated, listed under "findings" in
`PROJECT.json` with the quoted line.

1. `tz_res_mem_carve` (`main.c:339`): a region below the reserved range is
   dropped, one above it is enlarged down to its end.
2. `main_init_sec` (`main.c:570`): without a paged part r0 is not 0, as
   `entry.S:92` says it would be.
3. `fdt_add_subnode` (`fdt_rw.c:346`): with `-FDT_ERR_NOTFOUND` as the parent it
   writes a node in front of the structure block.

The models show some more, which no property of a run forbids:

- `put_val` (`main.c:204`) cuts a two-cell length to 32 bits, so the upper part
  of a split region loses multiples of 4 GiB.
- `fdt_add_subnode` refuses `m` when there is `m@1`.
- `fdt_open_into` in place, on blocks out of order, loses `boot_cpuid_phys`
  (`fdt_rw.c:475`).
- `fdt_add_reservemap_entry` (`fdt_sw.c:116`) takes an entry after
  `fdt_finish_reservemap`, and no reader sees it. `fdt_finish` does not refuse a
  tree with nodes that are open.
- `_fdt_grab_space` (`fdt_sw.c:80`) compares what is left without sign: in a buffer with space for a
  header and not for the map of reservations nothing is refused for space. `FdtSeq`
  gets there only after `fdt_finish_reservemap` has failed, and stops.
- `request2size` (`dlmalloc.c:565`): a request of 2^31 - 11 to 2^31 - 1 bytes
  turns negative when it is padded and gets the smallest chunk. `realloc` of a
  block next to the top goes wrong from 2^31 - 27 on: `nb + MINSIZE` is negative
  as a `long` at `dlmalloc.c:1808` (and `1842`, which is then not reached), so
  `nb` bytes are cut from a top of any size. The top is then outside the heap and
  the block is returned as if it had grown.
  `Grow` does so too, as far as the memory of the model goes; the requests of the
  runs end below (8164 of 8165 with `WORD` = 2^14), so `HeapWhole` and
  `GivesBlocks` are about requests of up to 2^31 - 28 bytes to `realloc`, up to
  2^31 - 12 to the others, and from 2^31 on, as `dlmalloc.c:107` and `115` have it.
- A heap of dlmalloc that does not end at a page: once the second `sbrk` of
  `malloc_extend_top` has failed, what the first gave is in no chunk, and what
  remains of the last page is never given.
- `basic_malloc` (`malloc_wrapper.c:68`) moves its offset before it looks
  whether there is room: after one request that is too large all fail.
- `realloc` relies on `memcpy` going upwards, and `calloc`
  on `sbrk` clearing memory. The `memcpy` and the `sbrk` of this repository do.
- `__aeabi_imod` (`aeabi_divmod.c:177`) does not return unless the divisor is 0
  or a power of two, and then returns the quotient. Nothing calls it; `Imod`
  models it and no property speaks of it.
- `%#.0o` prints nothing for 0, and `%hh` is `%h` (`snprintf.c:297`): a value is
  cut to a `short`, not to a `char`. Division by 0 gives 0 and a remainder of all
  ones.
- An `init_size` that is larger than the blob (`main.c:569`) makes the size of the
  paged part wrap around, and the copy takes the whole address space.
  `WellFormed` leaves such headers out.

The first of the findings and the cut of `put_val` do not bite on the two boards of `platform_config.h` under QEMU,
with up to 4 GiB of memory, whose `/memory` then has one region around the
reserved range.

## Assumptions and fairness

- `TzResMem`, `Boot`: weak fairness of the next-state relation. One CPU runs one
  program with interrupts masked, so the next statement is always executed; in
  `Boot` it includes that the secure world returns.
- `Uart`: weak fairness of the CPU within the loops it is in, and of the
  transmitter: `uart_init` enables the device without `CTSEN`, so nothing on the
  other side can stop it. Nobody has to print, to type or to enter the kernel;
  without fairness of `Receive`, `uart_getchar` may wait for ever, as it does.
- `Fdt`: none; nothing there has to happen.
- `BiosFdt`: none. That the BIOS comes to an end is stated without fairness, as
  what a step may do (`WalkAdvances`): `offs` goes up over a blob that is not
  edited, and no other step leaves `pc` as it was.
- `WellFormed` (`Boot`): the image fits the flash, the BIOS ends below the
  kernel, and the header's init part is in the blob and loads into the secure
  memory. The code checks none of the three; the linker script and OP-TEE's
  build establish them. Without it the properties say nothing, and a wrong
  header does reach "lost" in the model.
- `Carvable` (`TzResMem`): used by `CarveExact` and `Reserves` only: regions that
  touch the reserved range, do not wrap, and whose pieces fit in 32 bits: what
  is left when the first two findings are set aside.
- `FdtSeq`, `Malloc`, `LibUtils`: none; nothing there has to happen.
- `FdtSeq`: the caller keeps the order the functions are made for (one root,
  properties before subnodes, each once, `fdt_finish` at the end) until the tree
  is finished; no name is longer than the buffer.
- `Malloc`: a client frees what it has, once, and writes within what
  `malloc_usable_size` says, but for the one that overruns blocks of `mdbg`.
- `LibUtils`: objects the functions get exist and, but for `memmove` and for a
  `memcpy` downwards, are apart; strings have a null.
- `Fdt`: blobs of version 17 that are `Sound` to begin with; property values do not look like tags to a walk
  that starts at a wrong offset; a caller of `fdt_set_name` sees to it that no
  sibling has the name, as `libfdt.h` asks.

## Not modelled

`PROJECT.json` lists every component with its status. Left out for good:

- the text of messages and `fdt_strerror.c` (a table), the stack check of the
  compiler, single instructions as functions, and the makefiles;
- of `libutils/isoc/include` everything but what the modules use: declarations;
  of `queue.h` the four operations of `TAILQ` that `mdbg` uses;
- of `dlmalloc.c` what is not built: `mmap`, the debug checks as code (they are
  the invariant `ChunksTile`), `malloc_stats`, which prints; of
  `malloc_wrapper.c` `mdbg_dump` and `mdbg_set_mode`, which print or choose what
  is printed. The malloc family, `fdt_sw.c` and `qsort` are built for other
  users of these libraries: nothing in `src/bios` calls them;
- time, and with it what "constant-time" means for `buf_compare_ct`;
- a `reg` property whose length is not that of whole entries, and the depth of
  the stack (two hazards with notes).

OP-TEE, Linux, QEMU and the PL011 are external. What the prover cannot do is
listed above.

## Plan

Done, in this order: `TzResMem` and its abstract specification, their proofs;
`Boot` on top of `SecureReservation`, with proofs; `Uart`, with proofs; `FdtBlob`,
`FdtTree`, `FdtRw`, `Fdt`; `BiosFdt`; `FdtSw`, `FdtRo`, `FdtSeq`; `DlMalloc`,
`MallocWrapper`, `Malloc`; the functions without state and `LibUtils`.

Next:

1. Proofs: `KernelTree`, from what `EditsTheTree` rests on: the tree after each
   call of the BIOS is known (`SetPropTurns` and the others), so what is left is
   which nodes its searches by path, by `compatible` and by address find.
2. The composition of `TzResMem` with the blob: the value it writes as cells,
   and what `get_val` reads behind a property that ends within an entry.
