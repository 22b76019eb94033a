-------------------------- MODULE AvbImages_invariants --------------------------
(***************************************************************************)
(* What AvbImages keeps, for the proofs of AvbImages_proofs.  ImagesKnown:  *)
(* each image is what the last command has left (Left), up to the damage a *)
(* copy has taken since (Damaged), and verify_image has checked whatever is *)
(* no longer on its list (JobKnown).  JobMeant: while nothing has changed,  *)
(* its list holds nothing but what was put into the images it looks at.    *)
(***************************************************************************)
EXTENDS AvbImages

\* A sequence, and what is in it.
IsSeq(s)  == \E T : s \in Seq(T)

Has(s, x) == \E k \in 1 .. Len(s) : s[k] = x

\* t is in g from the place at on.
Placed(g, at, t) == at + Len(t) <= Len(g) /\ \A k \in 1 .. Len(t) : g[at + k] = t[k]

\* f is g, but for cells that were zeroed and for its end.
Damaged(f, g) == /\ IsSeq(f) /\ IsSeq(g) /\ Len(f) <= Len(g)
                 /\ \A k \in 1 .. Len(f) : f[k] = g[k] \/ f[k] = Nul

\* What a struct can be made of.
Args(a) == ArgumentsOK(a) /\ ~ KeyRefused(a)

NamedTypes == {"chain", "hash", "hashtree"}

\* The descriptors that a command has put into an image.
Ds(m) == ParseImage(m.blob)

TypeOf(c) == IF c.type = "add_hash" THEN "hash" ELSE "hashtree"

\* The descriptor d says what the cover c remembers, and no more.
SaysDigest(digest, c, value) == /\ c.pinned = TRUE => digest = <<value>>
                                /\ c.pinned = FALSE => digest = << >>

SaysTree(d, c) == /\ d.tree_offset = Len(c.data)
                  /\ c.tree = TRUE => d.tree_size = TreeSize(Len(c.data))
                  /\ c.tree = FALSE => d.tree_size = 0

Describes(d, c) ==
    /\ IsSeq(c.data) /\ c.type \in {"add_hash", "add_hashtree"} /\ c.pinned \in BOOLEAN /\ c.tree \in BOOLEAN
    /\ d.type = TypeOf(c) /\ d.name = c.name /\ d.image_size = Len(c.data)
    /\ d.type = "hash" => SaysDigest(d.digest, c, Digest(c.data))
    /\ d.type = "hashtree" => SaysDigest(d.root_digest, c, RootDigest(c.data)) /\ SaysTree(d, c)

\* The chain c is what the descriptor d says.
Links(d, c) == d.name = c.name /\ d.location = c.location /\ d.public_key = KeyCells(c.key)

\* What descriptors ds, covers and chains have to do with each other.
Knows(ds, covers, chains) ==
    /\ IsSeq(ds)
    /\ \A c \in covers : /\ c.name \in ToSet(Names) /\ c.name \in DOMAIN Sizes
                         /\ \E d : Has(ds, d) /\ Describes(d, c)
    /\ \A d : Has(ds, d) =>
         /\ d.type \in {"property", "cmdline", "hash", "hashtree", "chain"}
         /\ d.type \in NamedTypes => d.name \in ToSet(Names)
         /\ d.type \in {"hash", "hashtree"} => d.image_size \in Nat /\ \E c \in covers : Describes(d, c)
         /\ d.type = "chain" => \E c \in chains : Links(d, c)
    /\ \A d, e : Has(ds, d) /\ Has(ds, e) /\ d.type = e.type /\ d.type \in {"hash", "hashtree"} /\ d.name = e.name
                    => d = e
    /\ \A c \in chains : c.name \in ToSet(Names) /\ \E d : Has(ds, d) /\ d.type = "chain" /\ d.name = c.name

Enough(ds, minor) == minor \in 0 .. 3 /\ \A d : Has(ds, d) => Needs(d) <= minor

\* m says what a command has made: a struct with the descriptors it knows of.
Sound(m) ==
    /\ Knows(Ds(m), m.covers, m.chains)
    /\ \E a, minor : /\ Args(a) /\ m.blob = Struct(a, Ds(m), minor) /\ Enough(Ds(m), minor)
                     /\ m.alg = a.alg /\ m.key = IF a.alg = "NONE" THEN None ELSE a.key

Idle(cell) == cell.kind \in {"data", "nul", "digest", "zeroed"}

\* An image with a footer.
Footed(g, m) ==
    \E at \in Nat : \E orig \in 1 .. at :
        /\ g # << >> /\ g[Len(g)] = Footer(orig, at, Len(m.blob)) /\ Len(g) % PerBlock = 0
        /\ Placed(g, at, m.blob) /\ at + Len(m.blob) < Len(g)
        /\ \A i \in 1 .. orig : g[i].kind = "data"
        /\ \A i \in 1 .. Len(g) - 1 : i <= at \/ at + Len(m.blob) < i => Idle(g[i])
        /\ \A d : Has(Ds(m), d) /\ d.type = "hashtree" =>
             /\ d.tree_offset \in Nat /\ d.tree_size \in Nat
             /\ orig <= d.tree_offset /\ d.tree_offset + d.tree_size <= at

\* What an image covers is in it: the data, and the tree unless it was zeroed.
HoldsTree(g, c, zeroed) ==
    /\ zeroed = FALSE => Placed(g, Len(c.data), GenerateTree(c.data))
    /\ zeroed = TRUE /\ TreeSize(Len(c.data)) > 0 =>
         Len(c.data) < Len(g) /\ g[Len(c.data) + 1].kind = "zeroed"

HoldsCovers(g, m) ==
    /\ m.zeroed \in BOOLEAN /\ \A c, e \in m.covers : c = e
    /\ \A c \in m.covers : /\ Placed(g, 0, c.data)
                           /\ c.type = "add_hashtree" /\ c.tree = TRUE => HoldsTree(g, c, m.zeroed)

\* The output of make_vbmeta_image.
Unfooted(g, m) ==
    Placed(g, 0, m.blob) /\ \A i \in 1 .. Len(g) : i > Len(m.blob) => g[i] = Nul

\* What the last command has left of the image p, before any copy of it has gone wrong.
Left(p, g, m) ==
    /\ IsSeq(g)
    /\ m.blob = << >> => \A i \in 1 .. Len(g) : g[i].kind = "data"
    /\ m.blob # << >> => Sound(m) /\ IF p \in DOMAIN Sizes THEN Footed(g, m) /\ HoldsCovers(g, m) ELSE Unfooted(g, m)

FilesKnown ==
    \A p \in ToSet(Names) :
        \E g : Left(p, g, made[p]) /\ Damaged(files[p], g) /\ (p \notin hurt => files[p] = g)

\* What made says of an image.
Recorded(m) == m = [blob |-> m.blob, alg |-> m.alg, key |-> m.key, covers |-> m.covers,
                    chains |-> m.chains, zeroed |-> m.zeroed]

Known == /\ DOMAIN files = ToSet(Names) /\ DOMAIN made = ToSet(Names) /\ hurt \subseteq ToSet(Names)
         /\ FilesKnown /\ \A p \in ToSet(Names) : Recorded(made[p])

\* A descriptor that verify_image can meet.
Plain(d) == /\ d.type \in {"property", "cmdline", "hash", "hashtree", "chain"}
            /\ d.type \in {"hash", "hashtree"} => d.image_size \in Nat
            /\ d.type \in NamedTypes => d.name \in ToSet(Names)

Item(d, top) == [d |-> d, top |-> top]

\* A hash or hashtree descriptor that has been verified says this of its partition.
Holds(d, a) ==
    /\ d.type = "hash" => HashMatches(d, files[d.name])
    /\ d.type = "hashtree" =>
         /\ d.root_digest # << >> => d.root_digest = <<RootDigest(Slice(files[d.name], 0, d.image_size))>>
         /\ d.image_size > PerBlock => d.image_size <= Len(files[d.name])
         /\ a.accept_zeroed = FALSE =>
              Slice(files[d.name], d.tree_offset, d.tree_size) = GenerateTree(Slice(files[d.name], 0, d.image_size))

\* Of the image p, what has not been verified is still to do.
Seen(p, top, todo, a) ==
    \A d : Has(ParseImage(files[p]), d) /\ d.type \in {"hash", "hashtree"} =>
        Holds(d, a) \/ Has(todo, Item(d, top))

SeenChains(p, a, todo) ==
    \A d : Has(ParseImage(files[p]), d) /\ d.type = "chain" =>
        \/ Has(todo, Item(d, TRUE))
        \/ a.follow = TRUE => Checked(files[d.name], a.key) /\ Seen(d.name, FALSE, todo, a)

Watched(p, a, todo) ==
    /\ a \in Verifies /\ p = a.image /\ Checked(files[p], a.key)
    /\ Seen(p, TRUE, todo, a) /\ SeenChains(p, a, todo)

Queue(todo) ==
    /\ IsSeq(todo)
    /\ \A t : Has(todo, t) => \E d : \E top \in BOOLEAN : t = Item(d, top) /\ Plain(d) /\ d.type \in NamedTypes

\* How far the blocks of a partition have been read.
Hashing(todo, left) ==
    /\ todo # << >> /\ Head(todo).d.type = "hashtree" /\ Head(todo).d.image_size > PerBlock
    /\ left \in 0 .. Head(todo).d.image_size
    /\ Head(todo).d.image_size - left <= Len(files[Head(todo).d.name])

JobKnown ==
    /\ job = [image |-> job.image, args |-> job.args, todo |-> job.todo, left |-> job.left, result |-> job.result]
    /\ pc \in {"idle", "verify", "hash", "done"} /\ job.result \in {"running", "ok", "failed"}
    /\ job.left \in Nat /\ events \in 0 .. MaxEvents
    /\ pc = "idle" => job.result = "running"
    /\ job.result = "ok" => Watched(job.image, job.args, << >>)
    /\ pc \in {"verify", "hash"} => /\ job.result = "running" /\ Queue(job.todo)
                                    /\ Watched(job.image, job.args, job.todo)
    /\ pc = "hash" => Hashing(job.todo, job.left)

\* The inductive invariant.
ImagesKnown == Known /\ JobKnown

\* What a verification with the command line a depends on is as it was made, and is
\* what was asked for.
Hopeful(a) ==
    /\ IsMade(a.image) /\ \A p \in Looked(a) : Fresh(p, a)
    /\ \A c \in made[a.image].chains : Expected(c, a) /\ ~ (a.follow /\ made[c.name].chains # {})

\* What is to do is a descriptor that was put into the image, or into one it chains.
Meant(t, a) ==
    \/ t.top = TRUE /\ Has(Ds(made[a.image]), t.d)
    \/ /\ t.top = FALSE /\ a.follow = TRUE
       /\ \E c \in made[a.image].chains : Has(Ds(made[c.name]), t.d)

AllMeant(todo, a) == \A t : Has(todo, t) => Meant(t, a)

JobMeant ==
    /\ pc \in {"verify", "hash"} => (Hopeful(job.args) => AllMeant(job.todo, job.args))
    /\ job.result = "failed" => /\ job.args \in Verifies /\ job.image = job.args.image
                                /\ ~ Hopeful(job.args)
================================================================================
