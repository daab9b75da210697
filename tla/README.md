# A TLA+ model of midas-util

midas-util is a set of small programs for Samsung's midas boards (Galaxy S III,
Note II).  Its core is `boot`: started from an initramfs, it reads an ini file,
finds out which device it runs on, loads a kernel, a ramdisk and a device tree,
merges device tree overlays into the tree, writes the command line and the
ramdisk's addresses into it, and starts the new kernel with `kexec`.  A mistake
anywhere on this way is a device that does not boot, without a console to say
why, and most of the code is only ever run on a device.  This directory holds
TLA+ modules that model that program, and two tools beside it (`getdtb` and the
audio mixer tool), TLC configurations that check them, and TLAPS proofs.

## Inventory

| component | source | state | operations |
|---|---|---|---|
| boot program | `boot/main.c`, `kernel.c`, `bootimage.c`, `util.c` | device; buffers and lengths of kernel, ramdisk, tree; base address; exit code | find the device, load parts from image or file, choose the layout, kexec |
| overlay selection | `boot/ufdt.c` `apply_overlays`, `gpio.c`, `util_has_cmdline` | tree, its length, position in the list | decide by device, mode, gpio line or command line; load; merge |
| tree properties | `boot/ufdt.c` `setup_dtb_prop`, `setup_dtb_prop_int` | allocation, totalsize, tracked size, pointer | grow, add node, set property |
| configuration | `boot/config.c`, `boot/inih/ini.c`, `get_gpio_name` | global options, devices, overlays; section, previous name, line number, error | classify a line, call the handler, look a gpio bank up |
| libufdt node pool | `boot/libufdt/ufdt_node_pool.c` | list of blocks, chains of unused entries | construct, alloc, free, destruct |
| libufdt overlay merge | `ufdt_overlay.c`, phandle table and paths of `ufdt_convert.c` | two trees, phandle table | raise phandles, local fixups, fixups, fragments, merge |
| libufdt linked nodes | `ufdt_node.c`, `fdt_to_ufdt_tree` | nodes with child, sibling and last-child pointers | build from tags, look up, merge, destruct |
| libufdt output | `ufdt_convert.c` `ufdt_to_fdt`, `ufdt_prop_dict.c` | output buffer, string tables, dictionary of property names | write nodes and properties, look names up |
| libufdt sysdeps | `sysdeps/` | | wrappers of libc |
| linked list | `boot/llist.c`, `audio/llist.c` | list | create, append, next |
| audio mixer tool | `audio/xml.c`, `set_paths.c` | place in the XML file, lists of controls; the card | collect in callbacks, set default and chosen path |
| getdtb | `getdtb.c` | | find the device, then its first tree |
| gpioutil, blank, reboot, scripts | | | one-shot system calls |

`main` calls the others in a fixed order in one thread; nothing runs
concurrently.  The components share the device tree: `load_dtb` allocates it,
`apply_overlays` replaces it, `setup_dtb_prop` reallocates it, `kexec_load`
reads it, and each keeps a length of its own for it.  What makes the program
hard is therefore not interleaving but

* *partial failure*: nearly every call may fail, results are often ignored
  (`setup_dtb_prop`, both loads, the enlarging of the dictionary), and the
  program goes on with what it has;
* *sizes and offsets*: totalsize, allocation and tracked size of the tree,
  alignment, the layout in memory, phandle offsets;
* *long sequences of legal calls*: the pool, the dictionary, the merge of
  fragment after fragment and overlay after overlay, the config file's sections
  and the elements of the mixer file in any order;
* *stale state*: the phandle table is built once, old bytes in a buffer, an old
  `errno`, uninitialised lengths and pointers, parser state left by an element.

`PROJECT.json` lists these hazards one by one with the line where each bites.

## Modules

| module | models | checked by |
|---|---|---|
| `Dtb` | the device tree and its size, which the next one and `Overlays` share | through both |
| `DtbProp` | `setup_dtb_prop`, `setup_dtb_prop_int` | run `dtbprop`, proofs in `DtbProofs` |
| `NodePool` | the pool with its pointers | run `nodepool`, proofs in `NodeProofs`; refines `BlockPool` |
| `BlockPool` | what the pool promises (abstract) | through `NodePool`, proofs in `NodeProofs` |
| `PoolParameters` | the constants both have | through both |
| `Pointers` | the null pointer of `NodePool` and `NodeTree` | through both |
| `PropDict` | the hash table of `ufdt_to_fdt` (operators) | through `TreeOutput` |
| `Tree` | trees as functions, and what laying one over another means | through the three below |
| `TreeOverlay` | `ufdt_apply_overlay`, for one overlay after the other | runs `treeoverlay`, `treeoverlay_target`, proofs in `TreeOverlayProofs` |
| `NodeTree` | linked nodes: built from tags, merged, destructed | run `nodetree`, proofs in `NodeProofs` |
| `TreeOutput`, `PropDict` | `ufdt_to_fdt`; the hash table of names | run `treeoutput`, proofs in `TreeOutputProofs` |
| `Cmdline` | `util_has_cmdline` (operators) | through `Overlays`, `Boot` |
| `Overlays` | `apply_overlays`, `gpio_should_apply` | runs `overlays`, `overlays_gpio`, proofs in `DtbProofs` |
| `Device` | `get_bootloader`, `get_cur_device` (operators) | through `Boot`, `GetDtb` |
| `BootImage` | loading files and image parts (operators) | through `Boot` |
| `Boot` | `main`; composes `Overlays` and `DtbProp` over one tree | run `boot`, proofs in `BootProofs` |
| `Config` | `load_config` over `ini_parse_stream`, `get_gpio_name` | run `config`, proofs in `ConfigProofs` |
| `Tool` | where the `main` of a tool is, and its exit status | through the two below |
| `GetDtb` | `getdtb` | run `getdtb`, proofs in `ToolProofs` |
| `Mixer` | the audio tool | run `mixer`, proofs in `ToolProofs` |
| `NumberFacts` | lemmas about numbers, sums and recursive functions the proofs share | |
| `MC*` | instances for TLC | |

Definitions keep the names of the functions and variables they model, and
`PROJECT.json` maps each to its lines.  Definitions introduced by a comment
"Mutant" are deliberately wrong variants of the one that follows.  No
specification uses them: substituted for the right one, each makes a property
fail, which shows that the property depends on that code.

### How state and actions correspond to the code

**DtbProp.**  `blob` is the tree (`alloc`, `total`, `used`, the properties of
`/chosen`), `dtbsz` the caller's `*size`, `mem` whether the caller's pointer
still is valid.  One call is one step: the disjuncts `Unreadable`,
`NodeNoMemory`, `NodeRefused`, `PropNoMemory`, `PropRefused`, `PropStored` are
its returns in the order of the code.  libfdt is modelled by how many bytes an
edit adds and when it refuses; `realloc` by failing, or moving the buffer or not.
A pointer that `realloc` has freed makes the next call undefined (`"ub"`).

**NodePool, BlockPool.**  `first`, `last`, `next` are the pointers; the value of
`last` is the address of a link, as in the code.  `free[b]` is the chain from
`first_free_entry`.  `preppend_block`, `append_block`, `remove_block` and
`search_block` are the static functions, `construct`, `destruct`,
`ufdt_node_pool_alloc`, `ufdt_node_pool_free` the operations.  Callers give
back only nodes they hold, or pointers the pool does not know.  `BlockPool`
forgets the lists: a new block only if all are full, a block goes when its last
node comes back and another has room.

**Tree, TreeOverlay.**  A tree is a function from items (a node, or a property
of a node) to values.  The actions are the phases of `ufdt_overlay_apply`: local
references, fixups, one step per child of the overlay's root; then the end of
`ufdt_apply_overlay`, and the call for the next overlay, which starts from the
tree the last one left and builds the phandle table anew.  Merging is stated for
the whole subtree at once (`LaidOver`): what is there takes the overlay's value,
all else is added.  The binary search is a recursive function over the same
bounds as the loop.  A phandle of 2^31 or more leaves an entry of the table as
`malloc` returned it: every such table is a possible one, and an entry that leads
nowhere is a path that starts with "?".  Nodes of equal phandle may be in any
order (`qsort`).  A fragment's path may begin with an
alias.  When a phase fails the overlay's contents no longer matter, since its
buffer is discarded, and are left as they were.

**NodeTree.**  The same merge at the level of the code's pointers: `mem` maps the
address of a node to `fdt_tag_ptr`, `sibling`, `child` and `last_child_p` (the
address of a field).  One step is one tag read in the innermost call of
`fdt_to_ufdt_tree`, one child in the innermost call of `merge_children`, or the
return from one; the stacks of both recursions are variables.  `TreeAsWritten`
ties it to `Tree`: if siblings have different names, as dtc makes them, the
pointers end up as `LaidOver` says, so that `TreeOverlay` and `TreeOutput` may
use it.  `bad` records a node that is freed twice or used afterwards.

**TreeOutput.**  Positions and lengths in bytes, for the tree that `LaidOver`
gives.  Steps are the reservations, the copying of the string tables, one
property, the beginning or end of one node, and `fdt_finish`.  libfdt is modelled
by the space it checks and takes; the code itself checks less for a property.
Names are offsets, at first from the end of the strings, and the property reads
them back from where the tables were copied to.  The dictionary that makes
properties of one name share an offset is the hash table of `PropDict`, with its
probing sequence and the doubling with its slot-by-slot rehash.  The larger
table may get no memory, which the code does not notice: `pc` is "garbage" then.

**Overlays, Cmdline.**  One step is one iteration of the loop, with the outcome
of each read, load and merge chosen freely; `fault` remembers what failed, so
that properties can say "if nothing failed".  An overlay whose header is bad may
merge as an empty one or crash, as its uninitialised table decides.  `Apply` leaves open how much of
the new buffer is used.  Overlays are taken not to touch `/chosen`; `dtbprop`
starts from every combination of its properties instead.  A blob whose structure
block cannot be walked ("bad", "broken") makes `fdt_to_ufdt_tree` loop for ever,
if the checks of its header let it get there: `Hangs`, after which `hung` stays.

`util_has_cmdline` reads the command line in pieces of `BUF_SIZE` bytes and
searches each alone, in a buffer without a NUL behind.  `reads` holds what
`strstr` can see after each read, split at its spaces into parameters: whole
ones, what the ends of a piece have left of others ("boot" of "bootmode=2", then
"mode=2"), and old bytes.  `Search` is one round of the loop, with its three
outcomes: the key is not there or has another value, it matches, or a NULL is
used because no "=" follows it in the piece or the piece has no space.
`util_has_cmdline` goes on to the next piece until a round does not say "no".
Of the texts the relations "occurs in" and "begins" are kept, and what follows
the "=" behind a key that occurs in a value, because `strstr` and `strncmp` are
what the code asks.

**BootImage, Device, Boot.**  The command line is read in pieces: the parameter
with the bootloader's name is in one of them, or cut by its end, and old bytes
may spell one too.  A device whose section leaves out a key has a wild pointer
there.  An overlay of a machine is for all of its devices or for none.  `pc` is the statement `main` is at.  Every file access may
fail before or after the length is stored; an unset length holds any of a few
values (`Junk`).  `Boot` instantiates `Overlays` and `DtbProp` with the same
`blob`, `dtbsz` and `hdr`, so that the tree goes through both as in the code,
`crash` stands for a NULL or freed pointer being used, and `hang` for the loop
`main` never leaves.  `addr`, `rd_start`, `rd_end` and the addresses of the
segments are sums of 32 bits (`% WORD`), as on the target.  `ALIGN` rounds up for
a power of two; an image's page size may be any other number not 0, for which
the mask clears single bits (`Cleared`).  The instance checks that the two forms
agree on powers of two.

**Config.**  One step is one `fgets` buffer.  A piece is classified as the code
would classify it; a line longer than the buffer is several pieces.  The
union `u` of an overlay is three words, each with the mode it was written under
(the layout of the 32-bit ARM target).  For a gpio bank `/dev` holds any of a
few lists of chips at each call; the scan stops at the first that fails.

**GetDtb.**  One step is one round of one of the three loops, with the table of
devices as it is in the source.

**Mixer.**  A file is the sequence of expat's events; one step is one callback,
or one control set on the card.  Parsing may end before any event, which stands
for an error in the file or in reading it: the program goes on either way.  Any
allocation may fail: a setting's `calloc` and a list's node are not checked
(`Dies`), a lost name or value is NULL (`NewSetting`, `Damaged`, `StartDevice`),
and the next `strcmp` with it crashes (`MeetsNull`, `apply_paths`).  Each value
of a control is a place of its own on the card (`PlacesOf`).  `Set` leaves open
which of the places that could take a value do take it: an item the enumeration
lacks or a string for an integer finds none, and any `mixer_ctl_set_value` may
fail for any of them.  `refused` remembers the places whose last set failed.

## Runs

Sizes are for the configurations as they stand.

| run | instance | shows |
|---|---|---|
| `dtbprop` | two properties, lengths 0, 4, 5, 8, all trees of 40 to 49 bytes, `*size` up to 90 (≈ 255 000 states) | the sizes stay consistent and estimates suffice over any sequence of calls; lengths on both sides of a multiple of 4 occur, and trees with and without slack |
| `nodepool` | three blocks of two entries (≈ 19 000) | lists and chains stay exact; every node accounted for, at most one unused block; refinement of `BlockPool`.  Three blocks are enough for a first, a middle and a last one |
| `treeoverlay` | every pair of seven targets and four contents on one board, each followed by a second overlay; broken fixups, large phandles; a phandle given to a node that was referred to without one, an alias changed between two uses, phandles that have collided (≈ 14 000) | references, phandles, contents |
| `treeoverlay_target` | same | *violated*: a phandle no node has finds a node |
| `nodetree` | all trees of up to four tags under all overlays of up to four, two names each, twins included (≈ 150 000) | pointers agree with `Tree`, each node freed once, termination.  Four tags are enough for nesting, for two siblings before and after a merged one, and for a node merged inside a merged one |
| `treeoutput` | one board, four overlays in two string orders, buffers of 36 to 260 bytes and the allocated one; a fifth overlay with six names that collide modulo 4, 8 and 16, in every order (≈ 45 000) | the output reads back as the merged tree; the allocated buffer suffices; the dictionary is a map and never full, across two enlargements |
| `overlays` | lists of up to three overlays out of twelve kinds, thirteen command lines, four of them read in two pieces and three of those cut in the key, before the "=" or in the value (≈ 807 000) | exactly the wanted overlays, in order; sizes agree; failed reads are survived |
| `overlays_gpio` | same | *violated*: an unreadable line applies the overlay |
| `boot` | some 140 machines, command lines whole and cut, a page size that is no power of two, RAM at the end of the address space, blocks that cannot be walked (≈ 165 000) | from image to kexec: the right device and mode, origin of the parts, layout, contents of the tree; termination |
| `config` | files of up to seven pieces over fourteen kinds, three lists of chips (≈ 450 000) | order of overlays, union, devices, no use of a refused file |
| `getdtb` | five names, up to three pieces, sets of trees (≈ 48 000) | the right tree is printed |
| `mixer` | all pairs of devices, paths and stray controls, all nestings of three elements; allocations that fail; a control of two values, either of which may be refused, and an enumeration without the item (≈ 5 092 000) | controls are where the file has them, the card is set accordingly |

`CHECK_DEADLOCK FALSE` stands where the program really ends (a program that has
exited, a file that has been read, a bound that is reached).  The pool runs for
ever and is checked for deadlock.

*Fairness.*  `Boot` and `NodeTree` state it: weak fairness of the whole
next-state relation.  Both are a single thread, and no call in it waits for
another process, so it takes a step whenever it can.  `Ends` says that `main`
then reaches an exit, a crash or the new kernel if tree and overlays can be
walked (`Walkable`); `NestedEnds` that reading, merging and freeing come to an
end if the tags are nested.  Without these preconditions they do not: behind a
structure block that breaks off `fdt_next_tag` returns `FDT_END` for ever, and
the loop waits for `FDT_END_NODE`.  Both instances have such blocks, and there
the process stays in that loop (`hang` in `Boot`).

### Disagreements found

1. `apply_overlays` takes a negative `errno` from `gpio_should_apply` for "yes"
   (`ufdt.c:82`), while `config.h:82` says "if pin matches value here, overlay
   will be applied".
2. `ufdt_get_node_by_phandle` returns a neighbour for a phandle no node has
   (`ufdt_convert.c:233`), while `libufdt.h:188` says "NULL if no ufdt_node has
   phandle = phandle".  A fragment for a label without phandle, or one that was
   not fixed up, is merged into a wrong node.

Two more have no run of their own.  `ini_parse_stream` counts buffers where
`ini.h:47` says line numbers.  `count_phandle_node` counts phandles as unsigned
and `set_phandle_table_entry` enters them as `int` (`ufdt_convert.c:243`,
`:253`): for 2^31 and more the phandle table has an entry that was never
written, the offset for the overlay's phandles may be garbage, and they may
collide with the board's.  The instance of `treeoverlay` has such boards;
`PhandlesUnique` excludes them by `Small`, and does not hold without it.

Other preconditions the properties need, and that the code does not establish:
no failed `realloc` in `setup_dtb_prop` (the result is ignored by `main` and the
tree is then inconsistent or freed); command lines on which, in the pieces in
which they are read, each key asked for is seen once, whole, with its value, and
nowhere else, and the wanted value is no proper prefix of it (`Unambiguous`), and
whose pieces have a space each (`Spaced`): otherwise a parameter is missed or
taken wrongly, or a NULL is used; blobs whose structure block can be walked
(`Walkable`, the forms in `WholeInputs`); a device tree file exactly as long as its totalsize as soon
as there are overlays; one `devices=` and one `mode=` line; devices that are not
called "global" or "overlay...", whose section the handler takes for another
kind; image headers whose sums do not wrap and whose page size is a power of two
(`PlainHeader`); a layout that ends below 2^32, for the claim that segments
follow each other (`BelowWord`); overlays that do not give a new
phandle to a node that has one; a board whose own phandles differ; siblings with
different names; no alias for the root, and no fragment that changes one; a
bootloader name that lies in one piece of the command line; names for the paths
of a device in the mixer file, values of the kind the control has (`Plain`), and
allocations that do not fail there (`~short`).  Each
precondition is a named definition next to the property.

## Proofs

A run shows a property for the instance it checks, a theorem for every value of
the constants: every list of overlays, every machine, every file.  Every
invariant of the runs `dtbprop`, `nodepool`, `treeoverlay`, `treeoutput`,
`overlays`, `boot`, `config`, `getdtb` and `mixer` is a theorem, and so are the
refinement in `nodepool` and `FreedOnce` of `nodetree`.

| module | properties proved | for all |
|---|---|---|
| `DtbProofs` | `TypeOK`, `MemorySafe`, `GrowthSuffices`, `SizeIsTotalsize` | properties, lengths, well-formed inputs, sequences of calls |
| `NodeProofs` | `ListIntact`, `FreeInFront`, `ChainsExact`, `EntriesAccounted`, `AtMostOneUnused`, `RefinesBlockPool` | finite sets of blocks, block sizes |
| `NodeProofs` | `FreedOnce` | sequences of tags, nested or not, with twins or not; paths |
| `TreeOverlayProofs` | `RefsResolved`, `PhandlesUnique`, `MergedAsWritten`, `BaseRefsKept` | trees, overlays, numbers of overlays and fragments, widths of phandles |
| `TreeOutputProofs` | `OutputFaithful`, `MoreThanEnough`, `FindsLast`, `NeverFull` | trees, string tables, targets, buffer sizes, hash functions, orders of children |
| `DtbProofs` | `SizesAgree`, `OneTreeLeft`, `ExactlyWanted`, `SurvivesFailedReads` | lists of overlays, command lines and how they are read, trees, failures |
| `BootProofs` | `TreeHandedOver`, `SegmentsSound`, `InitrdFound`, `TreeWhole`, `StartsWhatWasLoaded`, `ImageTakenWhole`, `GoodMachineBoots` | page sizes, images, machines, configurations, failures |
| `ConfigProofs` | `OnlyCleanFiles`, `OverlaysInFileOrder`, `UnionReadAsWritten`, `DeviceSettingsKept` | files of any length, texts, chips |
| `ToolProofs` | `RightTree` | command lines, devices named, sets of trees |
| `ToolProofs` | `WidgetsWhereWritten`, `HardwareAsWritten` | files of any length and nesting, arguments, cards, refused values |

*Assumptions.*  Each module that is proved about names what it assumes of its
constants, and TLC evaluates that on every instance:

* `DtbPropAssumption`: lengths are natural numbers, the input is `WellFormed`.
* `OverlaysAssumption`: lists are lists; the tree that comes in has used part,
  totalsize, size and allocation in that order, as `load_dtb` leaves it for a file
  that holds the whole tree.
* `PropDictAssumption`, `TreeOutputAssumption`: hashes are natural numbers, the
  table starts with at least two slots; blobs are what `fdt_to_ufdt_tree` accepts,
  that is trees whose names are in their string table, and the target is a node.
* `BootAssumption`: header sizes and limits are natural numbers, the page size of
  the running kernel is a power of two that divides `WORD`; uninitialised lengths are some `size_t`; a machine's tree files
  hold whole trees, its images have a page size that is not 0 and are smaller than
  the largest allocation, and its RAM lies below `WORD`.
* `PoolAssumption`, `NodePoolAssumption`: a block has an entry; blocks are
  finitely many, and neither NULL nor the pool itself.
* `NodeTreeAssumption`: the null pointer is no node's address; a blob has a first
  tag, which begins its root (dtc writes it so; after any other `ufdt_from_fdt` has
  a tree without a root).  Tags need not be nested, nor names differ.
* `TreeOverlayAssumption`: trees and overlays are as dtc writes them: a node's
  parents are there, a phandle is one cell and differs from all others of its
  overlay, a local reference is listed once and holds its node's phandle, a
  reference to a label is listed under that label, and phandles, paths and the
  lists themselves are not listed; lists hold numbers, a "target" is one cell, a
  "target-path" a path.
* `ConfigAssumption`: no text of a file is what uninitialised memory holds, and
  "global" does not start with "overlay".
* `GetDtbAssumption`: the value of the name's parameter ends in a piece of the
  command line that is read.
* `MixerAssumption`: files are well nested, that is an end is only reported for
  the innermost open element and under its name.  expat sees to it: at any other
  tag it stops with an error, which is `ParseEnds`.  A control is an integer, which
  has no items, or an enumeration, which has one value, as `apply_paths`
  distinguishes them.

*Arguments.*  In each module `Inv` (or a longer name, where a module has two)
is the inductive invariant, a conjunction of named parts, and there is one lemma per action that keeps it.

* **DtbProp.**  `MemorySafe` does not say that totalsize never exceeds the tracked
  size; `Inv` adds that (`total <= dtbsz` for regular trees).  The heart is
  `EstimateCovers`: what libfdt adds for a property is at most what `PropSize`
  adds to the size, which rests on
  `TAGALIGN(a) - TAGALIGN(b) <= TAGALIGN(a - b)`.
* **NodePool.**  `ListInv` says that there is a sequence of the heap's blocks,
  each once, that the links spell out, whose last link is `last`, with the full
  blocks behind the others.  `PrependKeepsList`, `AppendKeepsList` and
  `RemoveKeepsList` say which sequence is spelled out after each list operation,
  at the front, in the middle and at the end.  `WalkIs` says that the loop of
  `search_block` meets that sequence in order: a function that satisfies the
  loop's equations is given explicitly, and the first place where the one chosen
  would differ is contradicted (`LeastNumber`; the provers have no induction).
  `BlockInv` ties each block's chain and counter to the nodes handed out.  With
  both, each step is a step of `BlockPool` or none (`StepRefines`): a new block is
  made only if all are full since the first block has room if any has, and a
  block goes exactly if another one has room.  What is shown of
  the abstract pool, whose invariant counts nodes and unused blocks, then holds of
  the pool.
* **TreeOverlay.**  The table is sorted and, without large phandles, lists every
  node that has one (`TableIs`); the search ends at the last entry that is not
  above the phandle (`SearchIs`: the loop as a function of its bounds, by the
  smallest distance at which it would end elsewhere), hence finds a phandle the
  main tree has (`SearchFinds`).  The offset is no less than any phandle of the
  main tree (`OffsetIs`), so that raised ones are all different from it (`Apart`),
  also modulo `WORD`, since both are below 2^31.  `LocalInv`, `FixupsInv` and
  `FragmentsInv` say what the overlay is after each phase; `FragmentsInv` that
  main tree and rest of the overlay stay trees with different phandles wherever a
  fragment goes, even to a neighbour of the node it is meant for (`LaidUnique`),
  which gives `PhandlesUnique` with no condition on targets.  For
  `MergedAsWritten` `LaidInv` adds what each item holds after the fragments so
  far: it needs that no fragment takes from another's contents (`SourcesApart`),
  that paths stay different when they are moved (`MovedInjective`), and that
  a fragment finds the node it is meant for or none (`TargetIs`), for which no
  earlier fragment may have changed an alias.  `BaseRefsKept` follows: a node's
  phandle depends on two items, and nothing has been laid over either.
* **NodeTree.**  The nodes in memory are a forest at every step (`Forest`): no node
  has two links to it, a head has none, and what the heads lead to is all there is.
  The heads are the roots, the nodes `fdt_to_ufdt_tree` still has open, and, for
  each active call of `merge_children`, the child it looks at next and the node
  that is being merged (`Heads`).  The child pointer of a node being merged is
  stale: its list has been taken over by the loop, so it counts as no link until it
  is set to NULL at the end.  No other pointer may lead to a node that has moved or
  is freed, which is why `FreedOnce` needs that line.  `NextFields` says of the last-child
  pointers that each names a free field in the node's own list, and no two the
  same field, so that adding a child never cuts another off; `Merging` that what
  is merged into hangs below the main root, and what is merged does not, so that no
  node is added below itself.  `ForestJoin`, `ForestCut` and `ForestDrop` say
  what linking, unlinking and freeing a head do to any forest; the lemmas below
  say it of the fields of nodes, and one lemma per step that `NodeInv` is kept.
  What `ufdt_node_destruct` visits is the part of the forest its argument leads to
  (`ReachedIs`), which has one link less than nodes (`PartGiven`): each is freed
  once, and the other tree is as it was.
* **TreeOutput.**  `IInv` has four parts besides types.  `DictOK` says of the hash
  table that `num_used` counts the slots taken, at most two thirds of them, and
  that a search for the name in a slot ends there; `AddKeeps` shows it for adding
  a property, the slot-by-slot rehash included, with what the table holds
  afterwards.  `Space` says that what is written, what is left and the ends of the
  open nodes add up to the size of the merged tree, which `MergedTree` bounds by
  both trees together.  `Below` and `Untouched` say that what is left lies in a
  node that is open or in one that is left, so that nothing is left when the root
  ends.  `Names` and `Reads` say what a reader finds at each tag: `PlaceUnique`
  shows that an offset into the tables, copied in reversed order, names one
  string, `StringOff` that the code's sum is that offset, `AroundIs` that a reader
  goes from node to node with the writer.  Sums over sets and the rehash are
  recursive functions: that a function satisfying the equations exists
  (`AllUnfold`, `Iterated`) is shown once, in `NumberFacts`, by a least
  counterexample.
* **Overlays.**  Sizes agree also in between (`SizesInv`); the tree held was made
  before the current position, so that a new one is new (`HeapInv`); the positions
  merged so far are, in order, the wanted ones among those passed (`AppliedInv`).
  `SearchExact` and `HasCmdlineExact` say that on an unambiguous command line the
  search finds the parameter exactly if it is there, whichever piece it is in; with
  a space in each piece no NULL is used.  `HangPreserves` covers the loop on a
  broken block.
* **Boot.**  The invariant follows the tree through `main`: until the overlays
  are done nothing has been stored in it, and from then on it satisfies the
  invariant `PropInv` of `DtbProofs`, whose lemmas are used through an instance over the
  same variables.  `LayoutInv` and `StoredInv` keep what is known of addresses and of what was
  stored in the tree, until kexec_load is reached.  `SegmentsSound` and
  `InitrdFound` compute modulo `WORD` throughout: multiples of the page stay such
  where they wrap (`WrappedPage`), and sums agree whichever way they are bracketed
  (`SumWraps`).  A layout whose sums wrap has a segment kexec_load refuses, so that
  none is started.  `RightMode` keeps that on a good machine recovery mode is what
  the command line says.
  `GoodMachineBoots` needs the invariant `Going`, what a good machine has at each
  statement, and that the loop over overlays keeps it.
* **Config.**  The properties speak of the end of the file, the invariant of every
  point: the overlays are in the order of the first calls of their sections in
  the history; the union of an overlay is empty until its section has set a mode;
  until the devices are listed no section of a device is accepted.
  `HandlerFacts` shows by the four kinds of section that one more call keeps it.
* **GetDtb.**  `DtbInv` says for each of the three loops what the rounds so far
  have shown: the piece with the name is still ahead, the devices looked at have
  other names, the trees tried are not there.
* **Mixer.**  `WidgetsWhereWritten` speaks of the lists alone, but what a callback
  does depends on what the parser has kept of the elements around it.  `ParseInv`
  adds that (`Held`, as long as no allocation has failed; `Collected` is all it says
  then, and `FileOK` what holds of any run): the current device is the name of the open device element,
  the current list the one of the open path element.  The stack of open elements
  is not a variable; it is defined by counting starts and ends (`OpenIn`), and
  `Balanced` with `WellNested` gives that an end closes exactly the last of them,
  by a counting argument.  A control's place in its list is its rank among those
  of the same device and state, so that appending a widget leaves all others in
  place.  `HwInv` says that each place of the card that has not refused last has,
  after some widgets of a list, the value of the last one for its control
  (`After`), and every place one of those given so far or none (`Ever`), first of
  the default list and then of the chosen one on top of it.  `SetPlaces` says that
  a set, however much of it fails, touches no place of another control.

*Only model-checked.*

* Liveness (`Ends`, `NestedEnds`), which is out of the prover's reach.
* `TreeAsWritten` of `NodeTree`, the one invariant without a theorem.  It equates
  the tree a reader finds by following pointers from the root with `LaidOver` of the
  two trees the tags spell out, and the path of a node is defined by recursion on
  both sides: that is induction over the depth of trees.

## Not modelled, and the plan

Left out for good:

* `gpioutil.c`, which prints the registers of a fixed table of banks,
  `blank.c` and `reboot.c`, one or two system calls each, and the scripts, fixed
  register writes for one board: they keep no state and decide nothing;
* `sysdeps/`, wrappers of libc, and `listFree`, which nobody calls;
* messages, debug dumps (`ufdt_node_print`, `config_dump`, `dump_buf_to_disk`);
* the text level of ini and XML files, and names longer than their buffers;
* behaviour after a NULL, freed or wild pointer has been used.

The plan was: first the tree's sizes, the pool, the merge and `main`; then the
output, several overlays in a row, aliases, chips and the two tools; then proofs
of the pool's pointers, `Overlays`, `Boot` and `Config`, of `TreeOutput` and
`TreeOverlay`, of the two tools and of `FreedOnce`; all of that is done.  What is
left is `TreeAsWritten` of `NodeTree`: that the linked tree is the one `LaidOver`
gives.
