----------------------------- MODULE BootTables -----------------------------
(***************************************************************************)
(* What the boot processor reads in the tables of the loader and of the    *)
(* firmware: load_multiboot_info, the RAM that kvminit looks for, the root *)
(* tables of ACPI and the search in them, and read_madt.  Memory is what   *)
(* stands at each address.                                                 *)
(***************************************************************************)
EXTENDS Naturals, Sequences
LOCAL INSTANCE SequencesExt
LOCAL INSTANCE FiniteSetsExt

CONSTANTS MAX_CORES, MAX_MODULES

Null == 0

\* The records of a table as they lie in memory behind a head: the address of the k-th,
\* where each takes the space given, and what a reader finds at an address.
Address(space, head, k) ==
  FoldLeft(LAMBDA a, n : a + n, head, SubSeq(space, 1, k - 1))

ReadAt(records, space, head, a) ==
  LET here == {k \in DOMAIN records : Address(space, head, k) = a}
  IN  IF here = {} THEN [type |-> "end"] ELSE records[Min(here)]

-----------------------------------------------------------------------------
(* multiboot.c, and what bsp_startup does with it                          *)

\* The tags that bsp_startup asks for, beside the modules.
Asked == {"memory_map", "framebuffer", "acpi_old", "acpi_new"}

\* The loader starts every tag on the next multiple of 8.
TagSpace(tags) == [k \in DOMAIN tags |-> ((tags[k].size + 7) \div 8) * 8]

\* BUG: the size of a tag is not rounded.
TagStepExact(tag) == tag.size

TagStep(tag) == ((tag.size + 7) \div 8) * 8

\* The loop: info has the address stored for each kind of tag, and the modules.
RECURSIVE Tags(_, _, _)
Tags(tags, header, info) ==
  LET tag == ReadAt(tags, TagSpace(tags), 8, header) IN
  IF tag.type = "end" THEN info
  ELSE Tags(tags, header + TagStep(tag),
         IF tag.type = "module" /\ Len(info.module) < MAX_MODULES
         THEN [info EXCEPT !.module = Append(@, header)]
         ELSE IF tag.type \in Asked THEN [info EXCEPT !.tag[tag.type] = header]
         ELSE info)

load_multiboot_info(tags) == Tags(tags, 8, [tag |-> [t \in Asked |-> Null], module |-> <<>>])

\* The loop over the entries of the memory map.
LargestRam(entries) ==
  FoldLeft(LAMBDA max, e : IF e.type = "ram" /\ e.length > max.length THEN e ELSE max,
           [type |-> "none", base |-> 0, length |-> 0], entries)

-----------------------------------------------------------------------------
(* acpi.c                                                                  *)

\* validate_sdt, and the loops over the bytes of the two descriptors.
ValidSum(bytes) == FoldLeft(LAMBDA sum, b : sum + b, 0, bytes) % 256 = 0

\* rsdt before and after bsp_startup calls load_rsdp with a descriptor, if there is one.
load_rsdp(rsdt, rsdp) == IF rsdp.present /\ ValidSum(rsdp.bytes) THEN rsdp.rsdt ELSE rsdt

\* Both descriptors, of the older kind: load_xsdp does not return from one with another
\* revision.  A root table is the sequence of its tables' signatures.
LoadDescriptors(old, new) == load_rsdp(load_rsdp(<<>>, old), new)

\* The place of the first table with the signature in the root table; xsdt is always
\* NULL, so it is the RSDT that is searched.
find_table(rsdt, signature) ==
  LET here == {k \in DOMAIN rsdt : rsdt[k] = signature}
  IN  IF here = {} THEN Null ELSE Min(here)

-----------------------------------------------------------------------------
(* ioapic.c                                                                *)

MadtHead == 44

MadtSpace(entries) == [k \in DOMAIN entries |-> entries[k].length]

Counts(entry) == entry.type = "lapic" /\ entry.enabled

\* The loop, which a map_mmio that fails leaves.
RECURSIVE MadtEntries(_, _, _, _)
MadtEntries(entries, header, mapped, status) ==
  LET entry == ReadAt(entries, MadtSpace(entries), MadtHead, header) IN
  IF entry.type = "end" THEN [status EXCEPT !.cores = Min({@, MAX_CORES})]
  ELSE IF entry.type = "ioapic" /\ status.ioapic = Null /\ ~mapped THEN status
  ELSE MadtEntries(entries, header + entry.length, mapped,
         IF Counts(entry) THEN [status EXCEPT !.cores = @ + 1]
         ELSE IF entry.type = "ioapic" /\ status.ioapic = Null
              THEN [status EXCEPT !.ioapic = header]
         ELSE status)

\* The number of cores, and where the first IO APIC is described.
read_madt(entries, mapped) ==
  MadtEntries(entries, MadtHead, mapped, [cores |-> 0, ioapic |-> Null])

-----------------------------------------------------------------------------
(* What they are to find.                                                  *)

\* The k of the records that satisfy P, in order.
Where(records, P(_)) == SelectSeq([k \in DOMAIN records |-> k], LAMBDA k : P(records[k]))

\* load_multiboot_info keeps the last tag of each kind asked for, and the modules in
\* their order, as many as there is room for.
TagsKept(tags) ==
  LET info == load_multiboot_info(tags)
      At(k) == Address(TagSpace(tags), 8, k)
      Is(t) == Where(tags, LAMBDA tag : tag.type = t)
  IN  /\ \A t \in Asked : info.tag[t] = IF Is(t) = <<>> THEN Null ELSE At(Last(Is(t)))
      /\ Len(info.module) = Min({Len(Is("module")), MAX_MODULES})
      /\ \A k \in DOMAIN info.module : info.module[k] = At(Is("module")[k])

\* kvminit finds RAM if there is any, and none is longer.
RamFound(entries) ==
  LET ram == {e \in Range(entries) : e.type = "ram" /\ e.length > 0}
      best == LargestRam(entries)
  IN  IF ram = {} THEN best.length = 0
      ELSE best \in ram /\ \A e \in ram : e.length <= best.length

\* A table is found if a descriptor whose sum is right leads to it, and the newer of two
\* such descriptors counts.
TableFound(old, new, signature) ==
  LET valid(d) == d.present /\ ValidSum(d.bytes)
      rsdt == LoadDescriptors(old, new)
      k == find_table(rsdt, signature)
  IN  /\ valid(new) => rsdt = new.rsdt
      /\ ~valid(new) /\ valid(old) => rsdt = old.rsdt
      /\ k # Null => rsdt[k] = signature
      /\ k = Null => ~(valid(old) \/ valid(new)) \/ signature \notin Range(rsdt)

\* read_madt counts the enabled processors, up to the room there is for them, and finds
\* the first IO APIC.
MadtRead(entries) ==
  LET status == read_madt(entries, TRUE)
      ioapics == Where(entries, LAMBDA e : e.type = "ioapic")
      enabled == Where(entries, LAMBDA e : e.type = "lapic" /\ e.enabled)
  IN  /\ status.cores = Min({Len(enabled), MAX_CORES})
      /\ status.ioapic = IF ioapics = <<>> THEN Null
                         ELSE Address(MadtSpace(entries), MadtHead, ioapics[1])

=============================================================================
