---- MODULE Attestation ----
(***************************************************************************)
(* The way from the binaries to a verified result: the loader turns the    *)
(* supervisor, the kernel, init and the inputs into load commands, the     *)
(* host executes them and the firmware measures them, the supervisor       *)
(* checks the inputs against the hash bound into the launch and moves them *)
(* to private memory, hashes the output, and mushroom-verify compares the  *)
(* report with what it expects.  The pages of the input stay in shared     *)
(* memory until the supervisor converts them, and may change until then.   *)
(*                                                                         *)
(* A hash is an injective function: the digest of x is a tagged x, and a   *)
(* digest that is extended step by step is the sequence of the extensions. *)
(* A page holds a header or PAGE bytes.  Signatures always verify; a field *)
(* of the report that must be zero, or have one fixed value, is Expected   *)
(* or not.  The KASAN shadow mappings are left out.                        *)
(***************************************************************************)
EXTENDS Integers, Sequences, FiniteSets, SequencesExt

CONSTANTS Tee,          \* the back ends: a subset of {"snp", "tdx", "insecure"}
          PAGE,         \* bytes of a page
          Bytes,        \* the values of a byte
          Programs,     \* records supervisor, kernel (program headers) and init
          InputLists,   \* the lists of inputs a run may be given
          Outputs,      \* what the workload may pass to one update_output
          Tcbs,         \* versions of a platform: tuples of components
          Policies,     \* guest policies
          Platforms,    \* records tcb, policy and the fields a platform reports
          InitFrame, InitFrames, InputFrame, InputFrames,
          MaxWrites,    \* outputs of a run
          MaxChanges    \* changes of shared input pages in a run

VARIABLES tee, program, inputs, \* what is launched
          platform,     \* where and under what policy, <<>> until it is reported
          pc,           \* launch, header, page, run, chunk, done or panic
          commands,     \* the load commands the host has not executed yet
          memory,       \* frame -> page, as the guest finds it
          access,       \* frame -> the permissions of the workload
          digest,       \* the firmware's measurement
          page_index, next_hash, header, hasher, \* verify_and_load
          stage, content, \* convert_to_private_in_place: its progress, its copy
          output, pending, recorded, \* the supervisor's Hasher, chunks, the host
          written,      \* the calls of update_output so far
          report, changes

launch == <<tee, program, inputs>>
boot == <<launch, platform, commands, digest>>
verifying == <<page_index, next_hash, header, hasher, stage, content>>
writing == <<output, pending, recorded, written>>
vars == <<boot, pc, memory, access, verifying, writing, report, changes>>

---------------------------------------------------------------------------
(* Headers and pages *)

Sha(type, x) == <<type, x>>
ZeroHash == <<"zero">>
End == [input_len |-> -1, hash_type |-> "Sha256", hash |-> ZeroHash, next_hash |-> ZeroHash]
HeaderHash(h) == Sha("Sha256", h)
NewHeader(bytes, type, next) ==
  [input_len |-> Len(bytes), hash_type |-> type, hash |-> Sha(type, bytes),
   next_hash |-> HeaderHash(next)]
without_hash(bytes) == [End EXCEPT !.input_len = Len(bytes)]

Expected == "expected" \* the zeros or the value that a field must have

HeaderPage(h) == <<"header", h>>
DataPage(bytes) == <<"data", bytes>>
Padded(chunk) == DataPage([k \in 1..PAGE |-> IF k <= Len(chunk) THEN chunk[k] ELSE 0])

(* <[T]>::chunks(0x1000) *)
Chunks(bytes) ==
  [i \in 1..((Len(bytes) + PAGE - 1) \div PAGE) |->
     SubSeq(bytes, (i - 1) * PAGE + 1, IF i * PAGE <= Len(bytes) THEN i * PAGE ELSE Len(bytes))]

---------------------------------------------------------------------------
(* The loader *)

Command(gpa, perms, type, page) == [gpa |-> gpa, perms |-> perms, type |-> type, page |-> page]

Permissions(flags) ==
  {p \in {"r", "w"} : p \in flags} \cup (IF "x" \in flags THEN {"u", "s"} ELSE {})

CopiedPage(ph, frame) ==
  LET first == ph.paddr
      last == first + Len(ph.file) - 1
      from == IF first > frame * PAGE THEN first ELSE frame * PAGE
      to == IF last < frame * PAGE + PAGE - 1 THEN last ELSE frame * PAGE + PAGE - 1
  IN  DataPage([k \in 1..PAGE |->
        LET at == frame * PAGE + k - 1
        IN  IF frame <= last \div PAGE /\ at \in from..to THEN ph.file[at - first + 1] ELSE 0])

Frames(ph) == (ph.paddr \div PAGE)..((ph.paddr + ph.memsz - 1) \div PAGE)

Payload(ph, frame) ==
  CASE ph.type = "cpuid"   -> DataPage(<<"cpuid">>)
    [] ph.type = "secrets" -> DataPage([k \in 1..PAGE |-> 0])
    [] OTHER               -> CopiedPage(ph, frame)

load(image, mask) ==
  LET loaded == SelectSeq(image, LAMBDA ph : ~ph.noload)
      segment(ph) == [i \in 1..Cardinality(Frames(ph)) |->
                        LET frame == ph.paddr \div PAGE + i - 1
                        IN  Command(frame, Permissions(ph.flags) \cap mask, ph.type,
                                    Payload(ph, frame))]
  IN  FlattenSeq([i \in DOMAIN loaded |-> segment(loaded[i])])

load_supervisor(image) == load(image, {})
load_kernel(image) == load(image, {"r", "w", "s"})

load_init(init) ==
  LET pages == <<<<{"r"}, HeaderPage(without_hash(init))>>>>
               \o [i \in DOMAIN Chunks(init) |-> <<{"r", "u"}, Padded(Chunks(init)[i])>>]
               \o <<<<{"r"}, HeaderPage(End)>>>>
  IN  [i \in 1..(IF Len(pages) < InitFrames THEN Len(pages) ELSE InitFrames) |->
         Command(InitFrame + i - 1, pages[i][1], "normal", pages[i][2])]

(* The header of each input, built from the last to the first, then End *)
Headers(list) ==
  LET h[i \in 1..(Len(list) + 1)] ==
        IF i > Len(list) THEN End ELSE NewHeader(list[i].bytes, list[i].hash_type, h[i + 1])
  IN  h

InputPages(list) ==
  FlattenSeq([i \in DOMAIN list |->
    <<HeaderPage(Headers(list)[i])>>
    \o [k \in DOMAIN Chunks(list[i].bytes) |-> Padded(Chunks(list[i].bytes)[k])]])
  \o <<HeaderPage(End)>>

load_input(list) ==
  [i \in 1..(IF Len(InputPages(list)) < InputFrames THEN Len(InputPages(list)) ELSE InputFrames) |->
     Command(InputFrame + i - 1, {}, "shared", InputPages(list)[i])]

generate_base_load_commands(kind, p) ==
  (IF kind = "insecure" THEN <<>> ELSE load_supervisor(p.supervisor))
  \o load_kernel(p.kernel) \o load_init(p.init)

generate_load_commands(kind, p, list) ==
  generate_base_load_commands(kind, p) \o load_input(list)

HostData(list) == HeaderHash(Headers(list)[1])
Private(c) == c.type # "shared"

---------------------------------------------------------------------------
(* Measurement: the firmware's for a group of pages, the verifier's for all *)

PageInfo(c) ==
  [contents |-> IF c.type = "normal" THEN Sha("Sha384", c.page) ELSE ZeroHash,
   page_type |-> c.type, vmpl1_perms |-> c.perms, gpa |-> c.gpa]
linux_vmsa ==
  [contents |-> Sha("Sha384", DataPage(<<"vmsa">>)), page_type |-> "vmsa",
   vmpl1_perms |-> {}, gpa |-> -1]

mem_page_add(c) == <<"MEM.PAGE.ADD", c.gpa>>
mr_extend(c) == <<"MR.EXTEND", c.gpa, c.page>>

SnpDigest(cs) ==
  LET private == SelectSeq(cs, Private)
  IN  [i \in DOMAIN private |-> PageInfo(private[i])] \o <<linux_vmsa>>

(* All pages of a run of contiguous private pages are added, then extended *)
TdxDigest(cs) ==
  LET from[i \in 1..(Len(cs) + 1)] ==
        IF i > Len(cs) THEN <<>>
        ELSE IF ~Private(cs[i]) THEN from[i + 1]
        ELSE LET n == CHOOSE n \in 1..(Len(cs) + 1 - i) :
                        /\ \A k \in 1..(n - 1) : /\ cs[i + k].gpa - cs[i].gpa = k
                                                 /\ Private(cs[i + k])
                        /\ \/ i + n > Len(cs)
                           \/ cs[i + n].gpa - cs[i].gpa # n
                           \/ ~Private(cs[i + n])
                 run == SubSeq(cs, i, i + n - 1)
             IN  [k \in 1..n |-> mem_page_add(run[k])] \o [k \in 1..n |-> mr_extend(run[k])]
                 \o from[i + n]
  IN  from[1]

(* What LAUNCH_UPDATE or MEM.PAGE.ADD and MR.EXTEND add to the measurement *)
MeasuredSnp(group) == [i \in DOMAIN group |-> PageInfo(group[i])]
MeasuredTdx(group) == [i \in DOMAIN group |-> mem_page_add(group[i])]
                      \o [i \in DOMAIN group |-> mr_extend(group[i])]
Measured(kind, group) ==
  CASE ~Private(group[1]) \/ kind = "insecure" -> <<>>
    [] kind = "snp" -> MeasuredSnp(group)
    [] kind = "tdx" -> MeasuredTdx(group)

---------------------------------------------------------------------------
(* The host executes the load commands *)

SameSlot(first, next) == next.type = first.type /\ next.perms = first.perms
SameSlotPermissions(first, next) == Private(next) = Private(first) /\ next.perms = first.perms
SameSlotTdx(first, next) == Private(next) = Private(first)
SameSlotInsecure(first, next) == next.type = first.type /\ next.perms = first.perms

Follows(kind, first, next, i) ==
  /\ next.gpa > first.gpa
  /\ next.gpa - first.gpa = i
  /\ CASE kind = "snp" -> SameSlot(first, next)
       [] kind = "tdx" -> SameSlotTdx(first, next)
       [] kind = "insecure" -> SameSlotInsecure(first, next)

GroupLen(kind, cs) ==
  CHOOSE n \in 1..Len(cs) :
    /\ \A i \in 1..(n - 1) : Follows(kind, cs[1], cs[i + 1], i)
    /\ n = Len(cs) \/ ~Follows(kind, cs[1], cs[n + 1], n)

Init ==
  /\ tee \in Tee /\ program \in Programs /\ inputs \in InputLists /\ platform = <<>>
  /\ pc = "launch"
  /\ commands = generate_load_commands(tee, program, inputs)
  /\ memory = <<>> /\ access = <<>> /\ digest = <<>>
  /\ page_index = 0 /\ next_hash = HostData(inputs) /\ header = End /\ hasher = <<>>
  /\ stage = "shared" /\ content = <<>>
  /\ output = <<>> /\ pending = <<>> /\ recorded = <<>> /\ written = 0
  /\ report = <<>> /\ changes = 0

(* One slot: Slot::for_launch_update, then the launch update if it is private.  No
   permissions protect what is shared. *)
Launch ==
  /\ pc = "launch" /\ commands # <<>>
  /\ LET n == GroupLen(tee, commands)
         group == SubSeq(commands, 1, n)
         gpa == group[1].gpa
     IN  /\ memory' = [f \in gpa..(gpa + n - 1) |-> group[f - gpa + 1].page] @@ memory
         /\ access' = [f \in gpa..(gpa + n - 1) |->
                         CASE tee = "insecure" -> {"r", "w", "u", "s"}
                           [] ~Private(group[1]) -> {"r", "w"}
                           [] tee = "snp" -> group[1].perms
                           [] OTHER -> {}] @@ access
         /\ digest' = digest \o Measured(tee, group)
         /\ commands' = SubSeq(commands, n + 1, Len(commands))
  /\ UNCHANGED <<launch, platform, pc, verifying, writing, report, changes>>

(* SNP_LAUNCH_FINISH also measures the VMSA of the boot processor *)
LaunchFinish ==
  /\ pc = "launch" /\ commands = <<>>
  /\ digest' = IF tee = "snp" THEN Append(digest, linux_vmsa) ELSE digest
  /\ pc' = IF tee = "insecure" THEN "run" ELSE "header"
  /\ UNCHANGED <<launch, platform, commands, memory, access, verifying, writing, report,
                 changes>>

---------------------------------------------------------------------------
(* The supervisor *)

InputPage(i) == InputFrame + i
AllPages == UNION {ToSet([i \in DOMAIN load_input(l) |-> load_input(l)[i].page]) : l \in InputLists}
            \cup {DataPage(b) : b \in [1..PAGE -> Bytes]}

(* An input page that is still shared changes *)
SharedChanges ==
  /\ tee # "insecure" /\ pc \in {"header", "page"} /\ changes < MaxChanges
  /\ \E page \in AllPages,
        i \in (IF stage \in {"shared", "copied"} THEN page_index ELSE page_index + 1)
             ..(InputFrames - 1) :
       /\ InputPage(i) \in DOMAIN memory /\ memory[InputPage(i)] # page
       /\ memory' = [memory EXCEPT ![InputPage(i)] = page]
  /\ changes' = changes + 1
  /\ UNCHANGED <<boot, pc, access, verifying, writing, report>>

Panic ==
  /\ pc' = "panic"
  /\ UNCHANGED <<boot, memory, access, verifying, writing, report, changes>>

(* convert_to_private_in_place: the page is copied out of shared memory *)
CopyOut ==
  /\ \/ pc = "header"
     \/ pc = "page" /\ Len(hasher) < header.input_len
  /\ stage = "shared"
  /\ IF InputPage(page_index) \notin DOMAIN memory THEN Panic
     ELSE /\ content' = memory[InputPage(page_index)]
          /\ stage' = "copied"
          /\ UNCHANGED <<boot, pc, memory, access, page_index, next_hash, header, hasher,
                         writing, report, changes>>

(* The page turns private and is validated; SNP leaves any content, TDX zeros *)
FreshSnp == DataPage([k \in 1..PAGE |-> -2])
FreshTdx == DataPage([k \in 1..PAGE |-> 0])
MakePrivate ==
  /\ stage = "copied"
  /\ memory' = [memory EXCEPT ![InputPage(page_index)] =
                   IF tee = "snp" THEN FreshSnp ELSE FreshTdx]
  /\ stage' = "private"
  /\ UNCHANGED <<boot, pc, access, page_index, next_hash, header, hasher, content, writing,
                 report, changes>>

(* The copy is written back and the workload may read it *)
ConvertedSnp == [access EXCEPT ![InputPage(page_index)] = {"r"}]
ConvertedTdx == [access EXCEPT ![InputPage(page_index)] = {"r"}]
CopyBack ==
  /\ stage = "private"
  /\ memory' = [memory EXCEPT ![InputPage(page_index)] = content]
  /\ access' = IF tee = "snp" THEN ConvertedSnp ELSE ConvertedTdx
  /\ stage' = "converted"
  /\ UNCHANGED <<boot, pc, page_index, next_hash, header, hasher, content, writing, report,
                 changes>>

(* TDX: give the L2 VM access to the kernel and to init *)
load_kernel_attrs(f) ==
  UNION {Permissions(ph.flags) \cap {"r", "w", "s"} :
           ph \in {h \in ToSet(program.kernel) : h.type # "shared" /\ f \in Frames(h)}}
init_attrs_short(f) ==
  IF f \in InitFrame..(InitFrame + (PAGE + Len(program.init) - 1) \div PAGE) THEN {"r"} ELSE {}
load_init_attrs(f) ==
  IF f \in InitFrame..(InitFrame + (PAGE + Len(program.init) - 1) \div PAGE + 1)
  THEN {"r"} ELSE {}
InitTdx(a) == [f \in DOMAIN a |-> a[f] \cup load_kernel_attrs(f) \cup load_init_attrs(f)]

HeaderAccepted(page) == page[1] = "header" /\ HeaderHash(page[2]) = next_hash

(* The bytes of a header occur in no input *)
BytesOf(page) == IF page[1] = "data" THEN page[2] ELSE [k \in 1..PAGE |-> -1]

ZeroTail(bytes, n) == \A k \in (n + 1)..PAGE : bytes[k] = 0

HashUnchecked(bytes) == TRUE
HashMatches(bytes) == Sha(header.hash_type, bytes) = header.hash

(* The caller has the content of the page and moves on to the next one *)
NextPage == page_index' = page_index + 1 /\ stage' = "shared" /\ content' = <<>>

(* The loop of verify_and_load up to the check of the header, and what follows the loop *)
ReadHeader ==
  /\ pc = "header" /\ stage = "converted"
  /\ IF ~HeaderAccepted(content) THEN Panic
     ELSE LET h == content[2]
          IN  /\ NextPage
              /\ header' = h
              /\ access' = IF h = End /\ tee = "tdx" THEN InitTdx(access) ELSE access
              /\ pc' = IF h = End THEN "run" ELSE "page"
              /\ UNCHANGED <<boot, memory, next_hash, hasher, writing, report, changes>>

(* One page of the input *)
ReadPage ==
  /\ pc = "page" /\ stage = "converted"
  /\ LET left == header.input_len - Len(hasher)
         n == IF left >= PAGE THEN PAGE ELSE left
     IN  IF ~ZeroTail(BytesOf(content), n) THEN Panic
         ELSE /\ NextPage
              /\ hasher' = hasher \o SubSeq(BytesOf(content), 1, n)
              /\ UNCHANGED <<boot, pc, memory, access, next_hash, header, writing, report,
                             changes>>

(* Hasher::verify, and the hash of the next header *)
VerifyInput ==
  /\ pc = "page" /\ Len(hasher) = header.input_len
  /\ IF ~HashMatches(hasher) THEN Panic
     ELSE /\ next_hash' = header.next_hash
          /\ hasher' = <<>>
          /\ pc' = "header"
          /\ UNCHANGED <<boot, memory, access, page_index, header, stage, content, writing,
                         report, changes>>

verify_and_load == CopyOut \/ MakePrivate \/ CopyBack \/ ReadHeader \/ ReadPage \/ VerifyInput
VerifyAndLoadSnp == tee = "snp" /\ verify_and_load
VerifyAndLoadTdx == tee = "tdx" /\ verify_and_load

(* StaticFile::copy_to: the file the kernel finds from a frame on *)
copy_to(start) ==
  LET file[f \in DOMAIN memory] ==
        LET len == memory[f][2].input_len
            n == (len + PAGE - 1) \div PAGE
        IN  IF len = -1 THEN <<>>
            ELSE SubSeq(FlattenSeq([k \in 1..n |-> BytesOf(memory[f + k])]), 1, len)
                 \o file[f + n + 1]
  IN  file[start]

update_output(bytes) ==
  /\ pc = "run" /\ written < MaxWrites
  /\ output' = output \o bytes
  /\ pending' = bytes
  /\ written' = written + 1
  /\ pc' = IF bytes = <<>> THEN "run" ELSE "chunk"
  /\ UNCHANGED <<boot, memory, access, verifying, recorded, report, changes>>

(* The low bits of UPDATE_OUTPUT_MSR hold the length of a chunk minus one *)
ChunkValue(chunk) == Len(chunk) - 1
HostLen(value) == (value % PAGE) + 1
HostLenTdx(value) == (value % PAGE) + 1
OutputChunk ==
  /\ pc = "chunk"
  /\ LET chunk == Chunks(pending)[1]
         rest == SubSeq(pending, Len(chunk) + 1, Len(pending))
         len == IF tee = "snp" THEN HostLen(ChunkValue(chunk)) ELSE HostLenTdx(ChunkValue(chunk))
     IN  /\ recorded' = recorded \o SubSeq(Padded(chunk)[2], 1, len)
         /\ pending' = rest
         /\ pc' = IF rest = <<>> THEN "run" ELSE "chunk"
  /\ UNCHANGED <<boot, memory, access, verifying, output, written, report, changes>>

OutputHash(bytes) == [hash |-> Sha("Sha256", bytes), len |-> Len(bytes)]
ReportData(bytes) == [hash |-> OutputHash(bytes).hash, len |-> Len(bytes), padding |-> Expected]

(* The firmware signs what it knows of the guest and where it runs *)
ReportSnp(p) ==
  [vmpl |-> 0, report_data |-> ReportData(output), measurement |-> digest,
   host_data |-> HostData(inputs), policy |-> p.policy,
   signature_algo |-> p.signature_algo, launch_tcb |-> p.tcb]
(* tdx_init_vm asks for no attributes, owner or owner's configuration and pads the hash;
   nobody extends an RTMR *)
ReportTdx(p) ==
  [tee_type |-> p.tee_type, qe_vendor_id |-> p.qe_vendor_id, tee_tcb_svn |-> p.tcb,
   mr_signer_seam |-> p.mr_signer_seam, seam_attributes |-> p.seam_attributes,
   xfam |-> p.xfam, td_attributes |-> Expected, mr_td |-> digest,
   mr_config_id |-> [hash |-> HostData(inputs), padding |-> Expected],
   mr_owner |-> Expected, mr_owner_config |-> Expected, rtmrs |-> Expected,
   report_data |-> ReportData(output)]

finish ==
  /\ pc = "run"
  /\ platform' \in Platforms
  /\ report' = IF tee = "snp" THEN ReportSnp(platform') ELSE ReportTdx(platform')
  /\ pc' = "done"
  /\ UNCHANGED <<launch, commands, digest, memory, access, verifying, writing, changes>>

OutputSnp == tee = "snp" /\ ((\E bytes \in Outputs : update_output(bytes)) \/ OutputChunk \/ finish)
OutputTdx == tee = "tdx" /\ ((\E bytes \in Outputs : update_output(bytes)) \/ OutputChunk \/ finish)

Next ==
  \/ Launch
  \/ LaunchFinish
  \/ SharedChanges
  \/ VerifyAndLoadSnp
  \/ VerifyAndLoadTdx
  \/ OutputSnp
  \/ OutputTdx

Spec == Init /\ [][Next]_vars

---------------------------------------------------------------------------
(* mushroom-verify *)

HashedInput(input) ==
  [input_len |-> Len(input.bytes), hash_type |-> input.hash_type,
   hash |-> Sha(input.hash_type, input.bytes)]
InputHash(list) ==
  LET chain(input, next) ==
        [input_len |-> HashedInput(input).input_len, hash_type |-> input.hash_type,
         hash |-> HashedInput(input).hash, next_hash |-> HeaderHash(next)]
  IN  HeaderHash(FoldRight(chain, list, End))

AtLeast(version, min) == \A i \in DOMAIN min : version[i] >= min[i]
AtLeastTdx(version, min) == \A i \in DOMAIN min : version[i] >= min[i]

ConfigurationSnp == [p \in Programs |-> SnpDigest(generate_base_load_commands("snp", p))]
ConfigurationTdx == [p \in Programs |-> TdxDigest(generate_base_load_commands("tdx", p))]

SnpAccepts(p, policy, min, input_hash, r) ==
  /\ r.vmpl = 0
  /\ r.report_data.padding = Expected
  /\ r.measurement = ConfigurationSnp[p]
  /\ r.host_data = input_hash
  /\ r.policy = policy
  /\ r.signature_algo = Expected
  /\ AtLeast(r.launch_tcb, min)

TdxAccepts(p, min, input_hash, r) ==
  /\ r.tee_type = Expected /\ r.qe_vendor_id = Expected
  /\ AtLeastTdx(r.tee_tcb_svn, min)
  /\ r.mr_signer_seam = Expected /\ r.seam_attributes = Expected
  /\ r.td_attributes = Expected /\ r.xfam = Expected
  /\ r.mr_td = ConfigurationTdx[p]
  /\ r.mr_config_id = [hash |-> input_hash, padding |-> Expected]
  /\ r.mr_owner = Expected /\ r.mr_owner_config = Expected /\ r.rtmrs = Expected
  /\ r.report_data.padding = Expected

(* c is a configuration: the programs, the policy (SNP) and the oldest version allowed *)
verify_and_extract(kind, c, input_hash, r) ==
  IF kind = "snp" THEN SnpAccepts(c.program, c.policy, c.min, input_hash, r)
                  ELSE TdxAccepts(c.program, c.min, input_hash, r)

verify(kind, c, input_hash, output_hash, r) ==
  /\ verify_and_extract(kind, c, input_hash, r)
  /\ r.report_data.len = output_hash.len
  /\ r.report_data.hash = output_hash.hash

---------------------------------------------------------------------------
(* Properties *)

Concatenated(list) == FlattenSeq([i \in DOMAIN list |-> list[i].bytes])
PrivatePages(p) ==
  LET private == SelectSeq(generate_base_load_commands(tee, p), Private)
  IN  [i \in DOMAIN private |-> <<private[i].gpa, private[i].page>>]
Loaded(p) == SelectSeq(p.supervisor \o p.kernel, LAMBDA ph : ~ph.noload)

(* What a platform of the kind has to report besides its version *)
Genuine(kind, p) ==
  IF kind = "snp" THEN p.signature_algo = Expected
  ELSE \A f \in {"tee_type", "qe_vendor_id", "mr_signer_seam", "seam_attributes", "xfam"} :
         p[f] = Expected

Configurations == [program : Programs, policy : Policies, min : Tcbs]
Suits(c) ==
  /\ \A i \in DOMAIN c.min : platform.tcb[i] >= c.min[i]
  /\ Genuine(tee, platform)
  /\ tee = "snp" => platform.policy = c.policy

(* mushroom-verify accepts a report only for what ran: the private pages of the programs it
   was configured with, the input the workload found, the output the workload wrote, on a
   genuine platform that is new enough, under the policy it was configured with. *)
VerifiedMeansRun ==
  pc = "done" =>
    \A c \in Configurations, list \in InputLists :
      verify_and_extract(tee, c, InputHash(list), report)
        => /\ PrivatePages(c.program) = PrivatePages(program)
           /\ copy_to(InputFrame) = Concatenated(list)
           /\ \A out \in Outputs \cup {recorded} :
                verify(tee, c, InputHash(list), OutputHash(out), report) => out = output
           /\ Suits(c)

(* A run whose inputs fit into the input file and whose shared pages nobody changes is not
   refused by the supervisor, and the report of a run that finishes is accepted for the
   output the host recorded, by everyone who expects its programs and inputs and whose
   demands on platform and policy it meets, and by nobody whose demands it does not meet. *)
HonestRunVerifies ==
  /\ changes = 0 /\ Len(InputPages(inputs)) <= InputFrames => pc # "panic"
  /\ pc = "done" => \A c \in Configurations :
       c.program = program =>
         (verify(tee, c, InputHash(inputs), OutputHash(recorded), report) <=> Suits(c))

(* When the workload starts, every segment is where it was linked, the file's bytes first and
   zeros after them; the workload may do with the kernel's private segments what their
   program headers say, reads init and the inputs, and cannot touch what is private to the
   supervisor. *)
LoadedAsLinked ==
  pc = "run" =>
    /\ \A i \in DOMAIN Loaded(program) :
         LET ph == Loaded(program)[i]
         IN  (ph.type \in {"normal", "shared"} /\ (tee # "insecure" \/ ph \in ToSet(program.kernel)))
               => \A a \in ph.paddr..(ph.paddr + ph.memsz - 1) :
                    memory[a \div PAGE][2][(a % PAGE) + 1] =
                      IF a - ph.paddr < Len(ph.file) THEN ph.file[a - ph.paddr + 1] ELSE 0
    /\ copy_to(InitFrame) = program.init
    /\ tee # "insecure" =>
         /\ \A ph \in ToSet(program.supervisor) :
              ph.type # "shared" => \A f \in Frames(ph) : access[f] = {}
         /\ \A ph \in ToSet(program.kernel) : (ph.type = "normal" /\ ~ph.noload) =>
              \A f \in Frames(ph) :
                access[f] = (ph.flags \cap {"r", "w"}) \cup (IF "x" \in ph.flags THEN {"s"} ELSE {})
         /\ \A f \in DOMAIN access :
              f >= InitFrame => access[f] \cap {"r", "w"} = {"r"}
====
