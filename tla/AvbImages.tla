----------------------------- MODULE AvbImages -----------------------------
(***************************************************************************)
(* The images of a build and the commands of avb/avbtool.py that bind them *)
(* together: footers with a digest or a hash tree, vbmeta images that      *)
(* include the descriptors of others or chain them, and verify_image,      *)
(* which hashes a tree block by block.                                     *)
(*                                                                         *)
(* A command that writes is one step here; ImageFooter takes it apart, and *)
(* checks the sizes that are always large enough here.  Between commands   *)
(* an image may be built again; and of the copies that are verified one    *)
(* may have gone wrong: a cell of it is zeroed, or its end is missing.     *)
(***************************************************************************)
EXTENDS VbmetaImage

CONSTANTS
    Sizes,        \* of the images that are built: partition -> set of cells
    Footers,      \* command lines of add_hash_footer and add_hashtree_footer
    Makes,        \* command lines of make_vbmeta_image
    Verifies,     \* command lines of verify_image
    MaxEvents,    \* bound: images that are built again, and copies that go wrong
    CanTruncate   \* a copy may lose its end

\* What a command line of a command that writes a struct can say.
ArgumentsOK(a) ==
    /\ a.alg \in DOMAIN ALGORITHMS /\ a.key \in DOMAIN KeySize \cup {None} /\ a.pkmd \in Nat
    /\ a.props \in Seq(ToSet(a.props)) /\ a.cmdlines \in Seq(ToSet(a.cmdlines))
    /\ a.chains \in Seq(ToSet(a.chains)) /\ a.location \in Nat
    /\ \A c \in ToSet(a.chains) : /\ c.name \in ToSet(Names) /\ c.location \in Int
                                  /\ c.key \in DOMAIN KeySize /\ c.ab \in BOOLEAN
    /\ a.include \in Seq(ToSet(Names)) /\ a.rootfs \in ToSet(Names) \cup {None}

\* Bound: an image that is built gets a footer, which takes its descriptors from no
\* other image; the output of make_vbmeta_image is no such image.
ASSUME AvbImagesAssumption ==
    /\ VbmetaAssumption
    /\ DOMAIN Sizes \subseteq ToSet(Names) /\ \A p \in DOMAIN Sizes : Sizes[p] \subseteq Nat \ {0}
    /\ \A a \in Footers : /\ ArgumentsOK(a) /\ a.op \in {"add_hash", "add_hashtree"}
                          /\ a.image \in DOMAIN Sizes /\ a.include = << >>
                          /\ a.persistent \in BOOLEAN /\ a.tree \in BOOLEAN /\ a.as_rootfs \in BOOLEAN
    /\ \A a \in Makes : /\ ArgumentsOK(a) /\ a.output \in ToSet(Names) \ DOMAIN Sizes
                        /\ a.padding \in Nat \ {0}
    /\ \A a \in Verifies : /\ a.image \in ToSet(Names) /\ a.key \in DOMAIN KeySize \cup {None}
                           /\ a.follow \in BOOLEAN /\ a.accept_zeroed \in BOOLEAN
    /\ MaxEvents \in Nat /\ CanTruncate \in BOOLEAN

VARIABLES
    files,   \* the images
    pc,      \* the step of verify_image, or "idle"
    job,     \* its variables: image, args, todo (the descriptors), left (to be hashed)
             \* and the result
    made,    \* what the last command that wrote an image made of it, or Unmade
    hurt,    \* images of which a copy has gone wrong
    events   \* builds and bad copies so far

vars == <<files, pc, job, made, hurt, events>>

NoJob == [image |-> None, args |-> None, todo |-> << >>, left |-> 0, result |-> "running"]

Unmade    == [blob |-> << >>, alg |-> "NONE", key |-> None, covers |-> {}, chains |-> {}, zeroed |-> FALSE]
IsMade(p) == made[p].blob # << >>

\* An image as it is built, without a footer; each build has another content.
Data(p, v, n) == [i \in 1 .. n |-> [kind |-> "data", of |-> p, version |-> v, i |-> i]]

Init ==
    /\ files \in { [p \in ToSet(Names) |-> IF p \in DOMAIN Sizes THEN Data(p, 0, n[p]) ELSE << >>] :
                     n \in { m \in [DOMAIN Sizes -> UNION { Sizes[p] : p \in DOMAIN Sizes }] :
                               \A p \in DOMAIN Sizes : m[p] \in Sizes[p] } }
    /\ made = [p \in ToSet(Names) |-> Unmade]
    /\ pc = "idle" /\ job = NoJob /\ hurt = {} /\ events = 0

\* The image p is written whole, and m says what has been made of it.
\* bound: copies are for verify_image, no command that writes is run on them.
Writes(p, file, m) ==
    /\ hurt = {}
    /\ files' = [files EXCEPT ![p] = file] /\ made' = [made EXCEPT ![p] = m]
    /\ UNCHANGED <<pc, job, hurt>>

Build(p) ==
    /\ pc = "idle" /\ events < MaxEvents /\ events' = events + 1
    /\ \E n \in Sizes[p] : Writes(p, Data(p, events', n), Unmade)
-----------------------------------------------------------------------------
(* Footers.                                                                *)

\* Lines 3482-3493 and 3731-3742.
Original(file) == IF HasFooter(file) THEN Slice(file, 0, Last(file).orig) ELSE file

\* Mutant: the struct is not padded to a block.
WithFooterUnpadded(body, blob, orig) ==
    body \o blob \o Nuls(PerBlock - 1) \o <<Footer(orig, Len(body), Len(blob))>>

WithFooter(body, blob, orig) ==
    body \o PadTo(blob, PerBlock) \o Nuls(PerBlock - 1)
         \o <<Footer(orig, Len(body), Len(blob))>>

\* What an image covers for itself, for those who look at it later.
\* pinned: its digest is in the descriptor; tree: it can be checked without one.
Cover(p, data, a) ==
    [name |-> p, type |-> a.op, data |-> data, pinned |-> ~ a.persistent,
     tree |-> a.op = "add_hash" \/ a.tree \/ Len(data) <= PerBlock]

\* Of two covers of a partition and of a type the last is included.
Covers(a, own) ==
    LET from(k) == made[a.include[k]].covers
        last(c, k) == \A j \in DOMAIN a.include : \A e \in from(j) :
                          e.name = c.name /\ e.type = c.type => j <= k
    IN  own \cup UNION { { c \in from(k) : last(c, k) } : k \in DOMAIN a.include }

Made(a, own, blob) ==
    [blob |-> blob, alg |-> a.alg, key |-> IF a.alg = "NONE" THEN None ELSE a.key,
     covers |-> Covers(a, own), zeroed |-> FALSE,
     chains |-> ToSet(a.chains) \cup UNION { made[a.include[k]].chains : k \in DOMAIN a.include }]

\* required_libavb_version_minor
MinorOf(a) == IF \E k \in DOMAIN a.chains : ~ a.chains[k].ab THEN 3
              ELSE IF a.location > 0 THEN 2
              ELSE IF a.persistent \/ a.flags # {} THEN 1 ELSE 0

AddHashFooter(p, a) ==
    LET data == Original(files[p])
        desc == Hash(p, Len(data), IF a.persistent THEN << >> ELSE <<Digest(data)>>, a.flags)
        blob == Generate(a, <<desc>>, << >>, MinorOf(a), files)
    IN  /\ pc = "idle" /\ a.op = "add_hash" /\ files[p] # << >> /\ UNCHANGED events
        /\ IF blob = << >> THEN Writes(p, data, Unmade)
           ELSE Writes(p, WithFooter(PadTo(data, PerBlock), blob, Len(data)),
                       Made(a, {Cover(p, data, a)}, blob))

Hashed(data) == PadTo(data, PerBlock)

AddHashtreeFooter(p, a) ==
    LET orig == Original(files[p])
        data == Hashed(orig)
        tree == IF a.tree THEN GenerateTree(data) ELSE << >>
        desc == Hashtree(p, Len(data), Len(tree),
                         IF a.persistent THEN << >> ELSE <<RootDigest(data)>>, a.flags)
        blob == Generate(a, <<desc>>, IF a.as_rootfs THEN <<desc>> ELSE << >>, MinorOf(a), files)
    IN  /\ pc = "idle" /\ a.op = "add_hashtree" /\ files[p] # << >> /\ UNCHANGED events
        /\ IF blob = << >> THEN Writes(p, orig, Unmade)
           ELSE Writes(p, WithFooter(data \o tree, blob, Len(orig)),
                       Made(a, {Cover(p, data, a)}, blob))

\* Of the first hashtree descriptor; without a tree it writes a block too much,
\* see ImageFooter, and is not run here.
ZeroHashtree(p) ==
    LET trees == OfType(ParseImage(files[p]), "hashtree")
        ht == trees[1]
        at == ht.tree_offset
    IN  /\ pc = "idle" /\ HasFooter(files[p]) /\ Parses(files[p]) /\ trees # << >>
        /\ ht.tree_size > 0 /\ hurt = {}
        /\ files' = [files EXCEPT ![p] =
             SubSeq(@, 1, at) \o <<[kind |-> "zeroed"]>> \o Nuls(ht.tree_size - 1)
                 \o SubSeq(@, at + ht.tree_size + 1, Len(@))]
        /\ made' = [made EXCEPT ![p].zeroed = TRUE]
        /\ UNCHANGED <<pc, job, hurt, events>>

\* The output is emptied when the command line is parsed, also if it is included.
MakeVbmetaImage(a) ==
    LET emptied == [files EXCEPT ![a.output] = << >>]
        blob == Generate(a, << >>, << >>, MinorOf(a), emptied)
    IN  /\ pc = "idle" /\ UNCHANGED events
        /\ IF blob = << >> THEN Writes(a.output, << >>, Unmade)
           ELSE Writes(a.output, PadTo(blob, a.padding), Made(a, {}, blob))
-----------------------------------------------------------------------------
(* A copy that goes wrong.                                                 *)

Fault(p, file) ==
    /\ pc = "idle" /\ events < MaxEvents /\ events' = events + 1
    /\ files[p] # << >> /\ files' = [files EXCEPT ![p] = file] /\ hurt' = hurt \cup {p}
    /\ UNCHANGED <<pc, job, made>>

\* bound: at the first of the cells of a kind.
Edges(file) == { i \in DOMAIN file : i = 1 \/ file[i - 1].kind # file[i].kind }

Zero(p)     == \E i \in Edges(files[p]) : Fault(p, [files[p] EXCEPT ![i] = Nul])
Truncate(p) == CanTruncate /\ \E i \in Edges(files[p]) : Fault(p, SubSeq(files[p], 1, i - 1))
-----------------------------------------------------------------------------
(* verify_image.                                                           *)

\* A property and a kernel command line verify at once.
Tasks(ds, top) ==
    LET todo == OfTypes(ds, {"hash", "hashtree", "chain"})
    IN  [k \in DOMAIN todo |-> [d |-> todo[k], top |-> top]]

Result(r)  == pc' = "done" /\ job' = [job EXCEPT !.todo = << >>, !.left = 0, !.result = r]
Proceed(t) == pc' = "verify" /\ job' = [job EXCEPT !.todo = t, !.left = 0]
Reads      == UNCHANGED <<files, made, hurt, events>>

Task == Head(job.todo)
Rest == Tail(job.todo)

VerifyImage(a) ==
    /\ pc = "idle" /\ files[a.image] # << >> /\ Reads
    /\ LET j == [NoJob EXCEPT !.image = a.image, !.args = a]
       IN  IF Checked(files[a.image], a.key)
           THEN pc' = "verify" /\ job' = [j EXCEPT !.todo = Tasks(ParseImage(files[a.image]), TRUE)]
           ELSE pc' = "done" /\ job' = [j EXCEPT !.result = "failed"]

Verify(type) == pc = "verify" /\ job.todo # << >> /\ Task.d.type = type /\ Reads

VerifyHash ==
    /\ Verify("hash")
    /\ IF HashMatches(Task.d, files[Task.d.name]) THEN Proceed(Rest) ELSE Result("failed")

\* generate_hash_tree; an image of one block is read at once.
VerifyHashtree ==
    /\ Verify("hashtree")
    /\ IF Task.d.image_size > PerBlock
       THEN pc' = "hash" /\ job' = [job EXCEPT !.left = Task.d.image_size]
       ELSE IF TreeMatches(Task.d, files[Task.d.name], job.args.accept_zeroed)
            THEN Proceed(Rest) ELSE Result("failed")

\* Lines 4182-4194: what is left becomes less by what was read.
HashBlock ==
    /\ pc = "hash" /\ job.left > 0 /\ Reads /\ UNCHANGED pc
    /\ LET size == IF job.left < PerBlock THEN job.left ELSE PerBlock
           data == Slice(files[Task.d.name], Task.d.image_size - job.left, size)
       IN  job' = [job EXCEPT !.left = @ - Len(data)]

CompareTree ==
    /\ pc = "hash" /\ job.left = 0 /\ Reads
    /\ IF TreeMatches(Task.d, files[Task.d.name], job.args.accept_zeroed)
       THEN Proceed(Rest) ELSE Result("failed")

\* A chained image is verified with the same key, and may not chain others.
VerifyChain ==
    /\ Verify("chain")
    /\ LET d        == Task.d
           expected == IF Task.top THEN job.args.expected ELSE {}
           follow   == Task.top /\ job.args.follow
           named    == \E e \in expected : e.name = d.name
       IN  IF ~ (ChainExpected(d, expected) \/ (follow /\ ~ named)) THEN Result("failed")
           ELSE IF ~ follow THEN Proceed(Rest)
           ELSE IF Checked(files[d.name], job.args.key)
           THEN Proceed(Tasks(ParseImage(files[d.name]), FALSE) \o Rest)
           ELSE Result("failed")

VerifyDone == pc = "verify" /\ job.todo = << >> /\ Reads /\ Result("ok")

Verifying == VerifyHash \/ VerifyHashtree \/ HashBlock \/ CompareTree \/ VerifyChain \/ VerifyDone

Return == pc = "done" /\ pc' = "idle" /\ job' = NoJob /\ Reads

Next ==
    \/ \E p \in DOMAIN Sizes : Build(p)
    \/ \E a \in Footers : AddHashFooter(a.image, a) \/ AddHashtreeFooter(a.image, a)
    \/ \E p \in ToSet(Names) : ZeroHashtree(p) \/ Zero(p) \/ Truncate(p)
    \/ \E a \in Makes : MakeVbmetaImage(a)
    \/ \E a \in Verifies : VerifyImage(a)
    \/ Verifying \/ Return

Spec == Init /\ [][Next]_vars /\ WF_vars(Verifying)
-----------------------------------------------------------------------------
(* Properties *)

TypeOK ==
    /\ \A p \in ToSet(Names) : \A i \in DOMAIN files[p] :
         files[p][i].kind \in {"data", "nul", "digest", "zeroed", "header", "desc", "more", "key",
                               "pkmd", "sig", "footer"}
    /\ \A p \in ToSet(Names) : HasFooter(files[p]) => Len(files[p]) % PerBlock = 0
    /\ pc \in {"idle", "verify", "hash", "done"} /\ job.result \in {"running", "ok", "failed"}
    /\ job.left \in Nat /\ hurt \subseteq ToSet(Names) /\ events \in 0 .. MaxEvents

\* A struct of which a libavb has to understand every descriptor: 1 for a flag of
\* a hash or hashtree descriptor and for a digest that is left out, 3 for a flag
\* of a chain.
Needs(d) ==
    IF d.type = "chain" THEN IF d.flags # {} THEN 3 ELSE 0
    ELSE IF d.type \in {"hash", "hashtree"}
         THEN IF d.flags # {} \/ << >> = (IF d.type = "hash" THEN d.digest ELSE d.root_digest)
              THEN 1 ELSE 0
    ELSE 0

\* Lines 2979-2985: whatever images an image has taken its descriptors from, the
\* version it requires is enough for each of them.
VersionSuffices ==
    \A p \in ToSet(Names) \ hurt : IsMade(p) =>
        \A k \in DOMAIN ParseImage(files[p]) :
            Needs(ParseImage(files[p])[k]) <= HeaderOf(files[p]).minor

\* An image that is not signed is believed only as far as it was copied well.
Signed(p)   == made[p].alg # "NONE"
Believed(p) == Signed(p) \/ p \notin hurt

\* The image itself and, with --follow_chain_partitions, those it chains.
Looked(a) == {a.image} \cup { c.name : c \in IF a.follow /\ Believed(a.image)
                                            THEN made[a.image].chains ELSE {} }

\* Lines 2530-2531: an image that is accepted is what the last command has made of
\* it, signed with the key that was asked for, and so are the images it chains; and
\* every partition that one of them pins holds, to the last cell, what it held
\* when its descriptor was made.
VerifySound ==
    job.result = "ok" =>
        /\ IsMade(job.image)
        /\ \A p \in Looked(job.args) :
             /\ IsMade(p)
             /\ job.args.key # None => Signed(p) /\ made[p].key = job.args.key
             /\ Believed(p) =>
                  /\ VbmetaBlob(files[p]) = made[p].blob
                  /\ \A c \in made[p].covers : c.pinned => Slice(files[c.name], 0, Len(c.data)) = c.data

\* Nothing has happened to p, or to what it covers, since it was made.
Fresh(p, a) ==
    /\ p \notin hurt /\ IsMade(p)
    /\ a.key # None => made[p].key = a.key
    /\ \A c \in made[p].covers :
         /\ c.name \notin hurt /\ IsMade(c.name) /\ c \in made[c.name].covers
         /\ a.accept_zeroed \/ (c.tree /\ ~ made[c.name].zeroed)

Expected(c, a) == \/ \E e \in a.expected : e.name = c.name /\ e.location = c.location /\ e.key = c.key
                  \/ a.follow /\ ~ \E e \in a.expected : e.name = c.name

\* No false alarm: an image made of images that have not changed since, with the
\* key and the chains that were asked for, is accepted.
FreshVerifies ==
    job.result = "failed" =>
        \/ ~ IsMade(job.image)
        \/ \E p \in Looked(job.args) : ~ Fresh(p, job.args)
        \/ \E c \in made[job.image].chains :
             ~ Expected(c, job.args) \/ (job.args.follow /\ made[c.name].chains # {})

\* The kernel reads every block of a partition that was accepted with its tree:
\* dm-verity finds each digest where the tool has put it.
KernelReads ==
    job.result = "ok" /\ ~ job.args.accept_zeroed =>
        \A p \in Looked(job.args) :
            LET trees == OfType(ParseImage(files[p]), "hashtree")
            IN  \A k \in DOMAIN trees : trees[k].root_digest # << >> =>
                  LET d    == trees[k]
                      data == Slice(files[d.name], 0, d.image_size)
                      tree == Slice(files[d.name], d.tree_offset, d.tree_size)
                  IN  \A b \in 0 .. (Len(data) \div PerBlock) - 1 :
                        VerityAccepts(data, tree, d.root_digest[1], b)

\* The device can use what the tool has made and accepted.
DeviceUnderstands == KernelReads /\ VersionSuffices

\* calculate_vbmeta_digest stands for what calculate_kernel_cmdline says, and for what
\* print_partition_digests says of an image that is chained one level deep: no step
\* changes either and leaves the digest.  Both commands and the digest read the chained
\* images, but print_partition_digests alone those that these chain (lines 2670-2675).
DigestPins ==
    [][\A p \in { a.output : a \in Makes } :
         Readable(files, p) /\ Readable(files', p) /\ VbmetaDigest(files, p) = VbmetaDigest(files', p) =>
             /\ \A off \in BOOLEAN : KernelCmdline(files, p, off) = KernelCmdline(files', p, off)
             /\ OneLevel(files, p) => PartitionDigests(files, p) = PartitionDigests(files', p)]_vars

\* Lines 2530-2531: "Raises: AvbError: If verification of the image fails."
\* Refuted: of an image that is shorter than its hashtree descriptor says
\* generate_hash_tree reads nothing, again and again.
VerifyEnds == (pc = "verify") ~> (pc = "done")
=============================================================================
