---------------------------- MODULE VbmetaImage ----------------------------
(***************************************************************************)
(* avb/avbtool.py: what a vbmeta struct is made of, how it is generated    *)
(* and signed, and how it is found again in an image and checked.          *)
(*                                                                         *)
(* A struct is a header of one cell, the authentication block with hash    *)
(* and signature, and the auxiliary block with the descriptors, the public *)
(* key and its metadata.  A descriptor is a cell that says how many follow *)
(* it; the cells of a block that was zeroed are Nul.  Signatures and       *)
(* digests are symbolic: they carry what they were made of.  Salts are     *)
(* left out, and every descriptor of a partition names it.                 *)
(***************************************************************************)
EXTENDS HashTree, FiniteSets, SequencesExt

CONSTANTS
    None,    \* an option that is not given
    Names,   \* the partitions in the order of sorted()
    KeySize  \* the keys, with the cells of their public halves

VbmetaAssumption ==
    /\ HashTreeAssumption
    /\ Names \in Seq(ToSet(Names)) /\ IsInjective(Names)
    /\ None \notin DOMAIN KeySize \cup ToSet(Names)
    /\ \A k \in DOMAIN KeySize : KeySize[k] \in Nat \ {0}

\* ALGORITHMS: hash, signature and key, in cells; an odd one needs padding.
ALGORITHMS == [NONE           |-> [hash |-> 0, sig |-> 0, key |-> 0],
               SHA256_RSA2048 |-> [hash |-> 1, sig |-> 2, key |-> 2],
               SHA256_RSA4096 |-> [hash |-> 1, sig |-> 3, key |-> 3]]

Unit == 2  \* 64 bytes, in cells

Slice(s, at, n) == SubSeq(s, at + 1, IF at + n < Len(s) THEN at + n ELSE Len(s))
PadTo(s, unit)  == s \o Nuls(round_to_multiple(Len(s), unit) - Len(s))

KeyCells(k)       == [i \in 1 .. KeySize[k] |-> [kind |-> "key", key |-> k, i |-> i]]
SigCells(k, s, n) == [i \in 1 .. n |-> [kind |-> "sig", key |-> k, of |-> s, i |-> i]]
-----------------------------------------------------------------------------
(* Descriptors.  A digest is a cell, or none when it is left out.          *)

Property(key) == [type |-> "property", key |-> key]
Cmdline(use, text) == [type |-> "cmdline", use |-> use, text |-> text]
Hash(name, size, digest, flags) ==
    [type |-> "hash", name |-> name, image_size |-> size, digest |-> digest, flags |-> flags]
Hashtree(name, size, tree, root, flags) ==
    [type |-> "hashtree", name |-> name, image_size |-> size, tree_offset |-> size,
     tree_size |-> tree, root_digest |-> root, flags |-> flags]
Chain(name, location, key, flags) ==
    [type |-> "chain", name |-> name, location |-> location, public_key |-> KeyCells(key),
     flags |-> flags]

\* encode: what is of variable size follows in cells of its own.
Following(d) == IF d.type \in {"hashtree", "chain"} THEN 1 ELSE 0
Encode(d)    == <<[kind |-> "desc", d |-> d, nbf |-> Following(d)]>>
                    \o [i \in 1 .. Following(d) |-> [kind |-> "more", d |-> d]]
EncodeAll(ds) == FlattenSeq([i \in 1 .. Len(ds) |-> Encode(ds[i])])

\* The constructors from data: a digest or a key in a zeroed cell is another one.
Spoiled(d) == IF d.type = "hashtree"
              THEN Hashtree(d.name, d.image_size, d.tree_size, <<Nul>>, d.flags)
              ELSE [type |-> d.type, name |-> d.name, location |-> d.location,
                    public_key |-> <<Nul>>, flags |-> d.flags]
Decode(data, o) ==
    LET d == data[o].d
    IN  IF data[o].nbf = 0 \/ (o < Len(data) /\ data[o + 1] = [kind |-> "more", d |-> d])
        THEN d ELSE Spoiled(d)

\* The loop of parse_descriptors, k times: what has been found, and where it is
\* then.  Not ok: a constructor has raised LookupError.
ParseLoop(data) ==
    LET f[k \in 0 .. Len(data)] ==
            IF k = 0 THEN [o |-> 1, ret |-> << >>, ok |-> TRUE]
            ELSE LET r == f[k - 1]
                 IN  IF r.o > Len(data) THEN r
                     ELSE IF data[r.o].kind # "desc" THEN [r EXCEPT !.ok = FALSE, !.o = Len(data) + 1]
                     ELSE [r EXCEPT !.o = @ + 1 + data[@].nbf, !.ret = Append(@, Decode(data, r.o))]
    IN  f

parse_descriptors(data) == ParseLoop(data)[Len(data)]
-----------------------------------------------------------------------------
(* Images.                                                                 *)

Footer(orig, at, size) == [kind |-> "footer", orig |-> orig, at |-> at, size |-> size]
HasFooter(file)        == file # << >> /\ Last(file).kind = "footer"
VbmetaOffset(file)     == IF HasFooter(file) THEN Last(file).at ELSE 0

IsHeader(file) == VbmetaOffset(file) < Len(file) /\ file[VbmetaOffset(file) + 1].kind = "header"
HeaderOf(file) == file[VbmetaOffset(file) + 1].h

\* Mutant: the size of the authentication block is forgotten.
DescriptorsOfNoAuth(file) ==
    LET h == HeaderOf(file)
    IN  parse_descriptors(Slice(file, VbmetaOffset(file) + 1 + h.desc_offset, h.desc_size))

DescriptorsOf(file) ==
    LET h == HeaderOf(file)
    IN  parse_descriptors(Slice(file, VbmetaOffset(file) + 1 + h.auth + h.desc_offset, h.desc_size))

\* _parse_image: whether it raises no exception, and the descriptors.
Parses(file)     == IsHeader(file) /\ DescriptorsOf(file).ok
ParseImage(file) == DescriptorsOf(file).ret

\* Mutant: without the auxiliary block.
VbmetaBlobNoAux(file) == Slice(file, VbmetaOffset(file), 1 + HeaderOf(file).auth)

\* _load_vbmeta_blob, and the same in verify_image and calculate_vbmeta_digest.
VbmetaBlob(file) == Slice(file, VbmetaOffset(file), 1 + HeaderOf(file).auth + HeaderOf(file).aux)
-----------------------------------------------------------------------------
(* Generating a struct.                                                    *)
(*                                                                         *)
(* a: alg, key, pkmd (cells of --public_key_metadata), chains, props,      *)
(* cmdlines, include (--include_descriptors_from_image), location          *)
(* (--rollback_index_location), rootfs (--setup_rootfs_from_kernel).       *)

\* The digest goes into the command line, and the number of blocks.
DmVerityCmdlines(ht) ==
    << Cmdline("hashtree", [root |-> ht.root_digest, blocks |-> ht.image_size \div PerBlock,
                            once |-> "once" \in ht.flags]),
       Cmdline("no hashtree", [root |-> "partition"]) >>

OfTypes(ds, types) == FlattenSeq([k \in DOMAIN ds |-> IF ds[k].type \in types THEN <<ds[k]>> ELSE << >>])
OfType(ds, type)   == OfTypes(ds, {type})

\* _get_cmdline_descriptors_for_dm_verity, of an image with a hashtree descriptor.
RootfsRefused(file)  == ~ Parses(file) \/ OfType(ParseImage(file), "hashtree") = << >>
RootfsCmdlines(file) == DmVerityCmdlines(OfType(ParseImage(file), "hashtree")[1])

LocationsInUse(a, k) == {a.location} \cup { a.chains[j].location : j \in 1 .. k - 1 }
ChainsRefused(a) == \E k \in DOMAIN a.chains :
    a.chains[k].location \in LocationsInUse(a, k) \/ a.chains[k].location < 1
Chains(a) == [k \in DOMAIN a.chains |->
    LET c == a.chains[k] IN Chain(c.name, c.location, c.key, IF c.ab THEN {} ELSE {"no ab"})]

\* Mutant: the first of two descriptors of a partition is kept.
KeptFirst(ds) == Head(ds)

Kept(ds) == Last(ds)

\* "only include the last seen descriptor"; those that name a partition are sorted.
Included(files, images) ==
    LET parsed == [i \in DOMAIN images |-> ParseImage(files[images[i]])]
        of(n, t)  == FlattenSeq([i \in DOMAIN images |->
                       FlattenSeq([k \in DOMAIN parsed[i] |->
                         IF parsed[i][k].type = t /\ parsed[i][k].name = n THEN <<parsed[i][k]>> ELSE << >>])])
        named(t)  == FlattenSeq([n \in DOMAIN Names |->
                       IF of(Names[n], t) = << >> THEN << >> ELSE <<Kept(of(Names[n], t))>>])
    IN  FlattenSeq([i \in DOMAIN images |-> OfTypes(parsed[i], {"property", "cmdline"})])
            \o named("chain") \o named("hash") \o named("hashtree")

KeyRefused(a) == LET size == ALGORITHMS[a.alg].key
                 IN  size > 0 /\ (a.key = None \/ KeySize[a.key] # size)

\* Mutant: what the included images require is forgotten.
MinorOwn(a, minor, files) == minor

\* bump_required_libavb_version_minor
Minor(a, minor, files) == Max({minor} \cup { HeaderOf(files[a.include[k]]).minor : k \in DOMAIN a.include })

\* Exceptions of _generate_vbmeta_blob.
Ungenerable(a, files) ==
    \/ ChainsRefused(a) \/ KeyRefused(a)
    \/ a.rootfs # None /\ RootfsRefused(files[a.rootfs])
    \/ \E k \in DOMAIN a.include : ~ Parses(files[a.include[k]])

Header(a, size, minor) ==
    LET alg == ALGORITHMS[a.alg]
    IN  [minor |-> minor, alg |-> a.alg, location |-> a.location,
         auth  |-> round_to_multiple(alg.hash + alg.sig, Unit),
         aux   |-> round_to_multiple(size + alg.key + a.pkmd, Unit),
         hash_offset |-> 0, hash_size |-> alg.hash,
         sig_offset  |-> alg.hash, sig_size |-> alg.sig,
         desc_offset |-> 0, desc_size |-> size,
         key_offset  |-> size, key_size |-> alg.key]

\* The struct: header, authentication block and auxiliary block.
AuxBlock(a, ds) ==
    PadTo(EncodeAll(ds) \o (IF ALGORITHMS[a.alg].key = 0 THEN << >> ELSE KeyCells(a.key))
              \o [i \in 1 .. a.pkmd |-> [kind |-> "pkmd"]], Unit)
AuthBlock(a, signed) ==
    PadTo(IF ALGORITHMS[a.alg].hash = 0 THEN << >>
          ELSE <<Digest(signed)>> \o SigCells(a.key, Digest(signed), ALGORITHMS[a.alg].sig), Unit)
Struct(a, ds, minor) ==
    LET header == <<[kind |-> "header", h |-> Header(a, Len(EncodeAll(ds)), minor)]>>
    IN  header \o AuthBlock(a, header \o AuxBlock(a, ds)) \o AuxBlock(a, ds)

\* own and hts: the descriptors of the command itself, ht_desc_to_setup.
Descriptors(a, own, hts, files) ==
    own \o Chains(a) \o [k \in DOMAIN a.props |-> Property(a.props[k])]
        \o (IF a.rootfs = None THEN << >> ELSE RootfsCmdlines(files[a.rootfs]))
        \o FlattenSeq([k \in DOMAIN hts |-> DmVerityCmdlines(hts[k])])
        \o [k \in DOMAIN a.cmdlines |-> Cmdline("always", a.cmdlines[k])]
        \o Included(files, a.include)

\* _generate_vbmeta_blob; empty: an exception.
Generate(a, own, hts, minor, files) ==
    IF Ungenerable(a, files) THEN << >>
    ELSE Struct(a, Descriptors(a, own, hts, files), Minor(a, minor, files))
-----------------------------------------------------------------------------
(* Checking it.                                                            *)

SignedPart(h, blob) == Slice(blob, 0, 1) \o Slice(blob, 1 + h.auth, h.aux)
PublicKey(h, blob)  == Slice(blob, 1 + h.auth + h.key_offset, h.key_size)

verify_vbmeta_signature(h, blob) ==
    LET digest == Digest(SignedPart(h, blob))
        hash   == Slice(blob, 1 + h.hash_offset, h.hash_size)
        sig    == Slice(blob, 1 + h.sig_offset, h.sig_size)
    IN  ALGORITHMS[h.alg].hash = 0
        \/ /\ hash = <<digest>>
           /\ \E k \in DOMAIN KeySize :
                 PublicKey(h, blob) = KeyCells(k) /\ sig = SigCells(k, digest, h.sig_size)

KeyAgrees(file, key) ==
    key # None => PublicKey(HeaderOf(file), VbmetaBlob(file)) = KeyCells(key)

\* verify_image up to the descriptors.
Checked(file, key) ==
    /\ Parses(file)
    /\ verify_vbmeta_signature(HeaderOf(file), VbmetaBlob(file)) /\ KeyAgrees(file, key)

\* AvbHashDescriptor.verify
HashMatches(d, file) == d.digest # << >> => d.digest = <<Digest(Slice(file, 0, d.image_size))>>

\* AvbHashtreeDescriptor.verify, of a file that is not shorter than the image.
TreeMatches(d, file, accept_zeroed) ==
    LET data   == Slice(file, 0, d.image_size)
        ondisk == Slice(file, d.tree_offset, d.tree_size)
        zeroed == d.tree_size = 0 \/ (ondisk # << >> /\ ondisk[1].kind = "zeroed")
    IN  /\ d.root_digest # << >> => d.root_digest = <<RootDigest(data)>>
        /\ (zeroed /\ accept_zeroed) \/ ondisk = GenerateTree(data)

\* AvbChainPartitionDescriptor.verify
ChainExpected(d, expected) ==
    \E e \in expected : /\ e.name = d.name
                        /\ e.location = d.location /\ d.public_key = KeyCells(e.key)
-----------------------------------------------------------------------------
(* The other commands that read.                                           *)

Chained(file) == OfType(ParseImage(file), "chain")

\* An image, and those it chains, can be parsed.
Readable(files, p) ==
    /\ Parses(files[p])
    /\ \A k \in DOMAIN Chained(files[p]) : Parses(files[Chained(files[p])[k].name])

\* calculate_vbmeta_digest
VbmetaDigest(files, p) ==
    VbmetaBlob(files[p]) \o FlattenSeq([k \in DOMAIN Chained(files[p]) |->
                                          VbmetaBlob(files[Chained(files[p])[k].name])])

\* Each descriptor, with those of a chained partition in the place of its own.
Followed(files, ds) ==
    FlattenSeq([k \in DOMAIN ds |-> IF ds[k].type = "chain" THEN ParseImage(files[ds[k].name])
                                    ELSE <<ds[k]>>])
Flattened(files, p) == Followed(files, ParseImage(files[p]))

\* calculate_kernel_cmdline
Used(ds, hashtree_disabled) ==
    SelectSeq(ds, LAMBDA d : d.use # (IF hashtree_disabled THEN "hashtree" ELSE "no hashtree"))
KernelCmdline(files, p, hashtree_disabled) ==
    Used(OfType(Flattened(files, p), "cmdline"), hashtree_disabled)

\* The chains that are left, level by level.  More levels than images are a cycle,
\* which has no end (RecursionError): chains are left then.
Deepened(files, ds) ==
    LET f[n \in Nat] == IF n = 0 THEN ds ELSE Followed(files, f[n - 1])
    IN  IF OfType(ds, "chain") = << >> THEN ds ELSE f[Len(Names)]

\* print_partition_digests
PartitionDigests(files, p) == OfTypes(Deepened(files, Flattened(files, p)), {"hash", "hashtree"})

\* The images that are chained chain no other.
OneLevel(files, p) == OfType(Flattened(files, p), "chain") = << >>
=============================================================================
