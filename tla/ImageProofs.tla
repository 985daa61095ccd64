---------------------------- MODULE ImageProofs ----------------------------
(***************************************************************************)
(* Proofs about the image writers.                                         *)
(***************************************************************************)
EXTENDS ImageProperties, DataInduction, SequenceTheorems

-----------------------------------------------------------------------------
(* The walks over Order: what is below a root, and a set as a list.        *)

LEMMA OrderFacts ==
  /\ Len(Order) \in Nat /\ DOMAIN Order = 1..Len(Order)
  /\ \A i \in 1..Len(Order) : Order[i] \in Paths
  /\ \A p \in Paths : \E i \in 1..Len(Order) : p = Order[i]
BY PathAssumption, LenProperties, ElementOfSeq DEF Paths

(* The walk is a function: under[i] has what it has found in the first i   *)
(* paths.                                                                  *)
Walk(root, under) ==
  under = [i \in 0..Len(Order) |->
             IF i = 0 THEN {}
             ELSE LET before == under[i - 1]
                  IN IF Parent[Order[i]] \in {root} \cup before
                     THEN before \cup {Order[i]} ELSE before]

LEMMA WalkExists == \A root : \E under : Walk(root, under)
<1>. SUFFICES ASSUME NEW root PROVE \E under : Walk(root, under)
  OBVIOUS
<1>. DEFINE n == Len(Order)
            Sets == SUBSET Paths
            None == {}
            step == [i \in 1..n |-> [set \in Sets |->
                       IF Parent[Order[i]] \in {root} \cup set THEN set \cup {Order[i]} ELSE set]]
<1>1. n \in Nat /\ None \in Sets /\ step \in [1..n -> [Sets -> Sets]]
  BY OrderFacts
<1>. HIDE DEF n, Sets, None, step
<1>2. PICK f \in [0..n -> Sets] : Follows(f, n, None, step)
  BY <1>1, Recursion
<1>. DEFINE Value(i) == IF Parent[Order[i]] \in {root} \cup f[i - 1]
                        THEN f[i - 1] \cup {Order[i]} ELSE f[i - 1]
<1>3. ASSUME NEW i \in 1..n PROVE f[i] = Value(i)
  <2>1. f[i - 1] \in Sets
    BY <1>1, <1>2
  <2>2. QED
    BY <1>2, <2>1 DEF step, Follows
<1>4. f = [i \in 0..n |-> IF i = 0 THEN {} ELSE Value(i)]
  <2>1. f[0] = {}
    BY <1>2 DEF Follows, None
  <2>. HIDE DEF Value
  <2>2. QED
    BY <1>1, <1>2, <1>3, <2>1
<1>5. Walk(root, f)
  BY <1>4, Zenon DEF Walk, n
<1>6. QED
  BY <1>5

LEMMA BelowIsWalked ==
  ASSUME NEW root
  PROVE  \E under : Walk(root, under) /\ Below(root) = under[Len(Order)]
<1>1. PICK under : Walk(root, under)
  BY WalkExists
<1>2. Walk(root, CHOOSE f : Walk(root, f))
  BY <1>1
<1>3. Below(root) = (CHOOSE f : Walk(root, f))[Len(Order)]
  BY DEF Below, Walk
<1>4. QED
  BY <1>2, <1>3

(* What is below a root is in it, or in a directory below it.              *)
LEMMA BelowFacts ==
  ASSUME NEW root
  PROVE  /\ Below(root) \subseteq Paths
         /\ \A p \in Paths :
              p \in Below(root) <=> Parent[p] = root \/ Parent[p] \in Below(root)
<1>1. PICK under : Walk(root, under) /\ Below(root) = under[Len(Order)]
  BY BelowIsWalked
<1>. DEFINE Upto(j) == {Order[k] : k \in 1..j}
            Closed(j) ==
              /\ under[j] \subseteq Upto(j)
              /\ \A i \in 1..j : Order[i] \in under[j] <=>
                                  Parent[Order[i]] = root \/ Parent[Order[i]] \in under[j]
            Good == {j \in 0..Len(Order) : Closed(j)}
<1>2. ASSUME NEW j \in 0..Len(Order), \A k \in 0..(j - 1) : k \in Good
      PROVE  j \in Good
  <2>1. CASE j = 0
    <3>1. under[0] = {}
      BY <1>1, OrderFacts DEF Walk
    <3>2. QED
      BY <2>1, <3>1
  <2>2. CASE j # 0
    <3>. DEFINE before == under[j - 1]
    <3>1. Closed(j - 1)
      <4>1. j - 1 \in 0..(j - 1)
        BY <2>2
      <4>2. j - 1 \in Good
        <5>. HIDE DEF Good
        <5>1. QED
          BY <1>2, <4>1
      <4>3. QED
        BY <4>2
    <3>2. under[j] = IF Parent[Order[j]] \in {root} \cup before
                     THEN before \cup {Order[j]} ELSE before
      BY <1>1, <2>2, OrderFacts DEF Walk
    <3>. HIDE DEF before
    <3>3. \A i \in 1..Len(Order) : i <= j => Parent[Order[i]] # Order[j]
      BY <2>2, OrderFacts, PathAssumption
    <3>4. \A i \in 1..Len(Order) : i < j => Order[i] # Order[j]
      BY <2>2, OrderFacts, PathAssumption
    <3>5. before \subseteq Upto(j - 1)
      BY <3>1 DEF before
    <3>6. under[j] \subseteq Upto(j)
      <4>1. Upto(j - 1) \subseteq Upto(j) /\ Order[j] \in Upto(j)
        BY <2>2
      <4>2. QED
        BY <3>2, <3>5, <4>1
    <3>7. ASSUME NEW i \in 1..j
          PROVE  Order[i] \in under[j] <=>
                   Parent[Order[i]] = root \/ Parent[Order[i]] \in under[j]
      <4>1. Parent[Order[i]] \in under[j] <=> Parent[Order[i]] \in before
        BY <3>2, <3>3, OrderFacts
      <4>2. CASE i = j
        <5>1. Order[j] \notin before
          BY <2>2, <3>4, <3>5, OrderFacts
        <5>2. QED
          BY <3>2, <4>1, <4>2, <5>1
      <4>3. CASE i # j
        <5>1. Order[i] \in under[j] <=> Order[i] \in before
          BY <3>2, <3>4, <4>3, OrderFacts
        <5>2. i \in 1..(j - 1)
          BY <2>2, <4>3
        <5>3. QED
          BY <3>1, <4>1, <5>1, <5>2 DEF before
      <4>4. QED
        BY <4>2, <4>3
    <3>8. QED
      BY <3>6, <3>7
  <2>3. QED
    BY <2>1, <2>2
<1>3. Closed(Len(Order))
  <2>. HIDE DEF Good
  <2>1. \A j \in 0..Len(Order) : (\A k \in 0..(j - 1) : k \in Good) => j \in Good
    BY <1>2
  <2>2. \A j \in 0..Len(Order) : j \in Good
    BY <2>1, Induction, OrderFacts
  <2>3. Len(Order) \in Good
    BY <2>2, OrderFacts
  <2>4. QED
    BY <2>3 DEF Good
<1>4. QED
  BY <1>1, <1>3, OrderFacts

(* A list comes in the order of Order, and has what is in the set.         *)
Listing(set, upto) ==
  upto = [i \in 0..Len(Order) |->
            IF i = 0 THEN << >>
            ELSE IF Order[i] \in set THEN Append(upto[i - 1], Order[i]) ELSE upto[i - 1]]

Rising(list) ==
  \A a, b \in 1..Len(list) : a < b =>
    \E i, k \in 1..Len(Order) : i < k /\ list[a] = Order[i] /\ list[b] = Order[k]

LEMMA ListingExists == \A set : \E upto : Listing(set, upto) /\ upto \in [0..Len(Order) -> Seq(Paths)]
<1>. SUFFICES ASSUME NEW set
              PROVE  \E upto : Listing(set, upto) /\ upto \in [0..Len(Order) -> Seq(Paths)]
  OBVIOUS
<1>. DEFINE n == Len(Order)
            Lists == Seq(Paths)
            None == << >>
            step == [i \in 1..n |-> [list \in Lists |->
                       IF Order[i] \in set THEN Append(list, Order[i]) ELSE list]]
<1>1. n \in Nat /\ None \in Lists /\ step \in [1..n -> [Lists -> Lists]]
  BY OrderFacts, EmptySeq, AppendProperties
<1>. HIDE DEF n, Lists, None, step
<1>2. PICK f \in [0..n -> Lists] : Follows(f, n, None, step)
  BY <1>1, Recursion
<1>. DEFINE Value(i) == IF Order[i] \in set THEN Append(f[i - 1], Order[i]) ELSE f[i - 1]
<1>3. ASSUME NEW i \in 1..n PROVE f[i] = Value(i)
  <2>1. f[i - 1] \in Lists
    BY <1>1, <1>2
  <2>2. QED
    BY <1>2, <2>1 DEF step, Follows
<1>4. f = [i \in 0..n |-> IF i = 0 THEN << >> ELSE Value(i)]
  <2>1. f[0] = << >>
    BY <1>2 DEF Follows, None
  <2>. HIDE DEF Value
  <2>2. QED
    BY <1>1, <1>2, <1>3, <2>1
<1>5. Listing(set, f)
  BY <1>4, Zenon DEF Listing, n
<1>6. QED
  BY <1>2, <1>5 DEF n, Lists

LEMMA ListingIsTyped ==
  ASSUME NEW set, NEW upto, Listing(set, upto)
  PROVE  \A j \in 0..Len(Order) :
           /\ upto[j] \in Seq(Paths) /\ Rising(upto[j])
           /\ {upto[j][i] : i \in 1..Len(upto[j])} = set \cap {Order[k] : k \in 1..j}
<1>. DEFINE Upto(j) == {Order[k] : k \in 1..j}
            Elements(list) == {list[i] : i \in 1..Len(list)}
            Right(j) == upto[j] \in Seq(Paths) /\ Rising(upto[j])
                          /\ Elements(upto[j]) = set \cap Upto(j)
            Good == {j \in 0..Len(Order) : Right(j)}
<1>1. ASSUME NEW j \in 0..Len(Order), \A k \in 0..(j - 1) : k \in Good
      PROVE  j \in Good
  <2>1. CASE j = 0
    <3>1. upto[0] = << >>
      BY OrderFacts DEF Listing
    <3>2. << >> \in Seq(Paths) /\ Rising(<< >>) /\ Elements(<< >>) = {}
      BY EmptySeq DEF Rising
    <3>3. Upto(0) = {}
      OBVIOUS
    <3>. HIDE DEF Upto, Elements
    <3>4. Right(0)
      BY <3>1, <3>2, <3>3
    <3>5. QED
      BY <2>1, <3>4
  <2>2. CASE j # 0
    <3>. DEFINE list == upto[j - 1]
    <3>1. Right(j - 1)
      <4>1. j - 1 \in 0..(j - 1)
        BY <2>2
      <4>2. j - 1 \in Good
        <5>. HIDE DEF Good
        <5>1. QED
          BY <1>1, <4>1
      <4>3. QED
        BY <4>2
    <3>2. upto[j] = IF Order[j] \in set THEN Append(list, Order[j]) ELSE list
      BY <2>2, OrderFacts DEF Listing
    <3>3. Order[j] \in Paths /\ j \in 1..Len(Order)
      BY <2>2, OrderFacts
    <3>4. list \in Seq(Paths) /\ Rising(list) /\ Elements(list) = set \cap Upto(j - 1)
      BY <3>1
    <3>5. Upto(j) = Upto(j - 1) \cup {Order[j]}
      BY <2>2
    <3>. HIDE DEF list, Upto, Good
    <3>6. CASE Order[j] \in set
      <4>. DEFINE longer == Append(list, Order[j])
      <4>1. /\ longer \in Seq(Paths) /\ Len(longer) = Len(list) + 1 /\ Len(list) \in Nat
            /\ \A i \in 1..Len(list) : longer[i] = list[i]
            /\ longer[Len(list) + 1] = Order[j]
        BY <3>3, <3>4, AppendProperties, LenProperties
      <4>. HIDE DEF longer
      <4>2. Elements(longer) = Elements(list) \cup {Order[j]}
        BY <4>1
      <4>3. ASSUME NEW a \in 1..Len(longer), NEW b \in 1..Len(longer), a < b
            PROVE  \E i, k \in 1..Len(Order) :
                     i < k /\ longer[a] = Order[i] /\ longer[b] = Order[k]
        <5>1. CASE b <= Len(list)
          <6>1. a \in 1..Len(list) /\ b \in 1..Len(list)
            BY <4>1, <4>3, <5>1
          <6>2. longer[a] = list[a] /\ longer[b] = list[b]
            BY <4>1, <6>1
          <6>3. QED
            BY <3>4, <4>3, <6>1, <6>2 DEF Rising
        <5>2. CASE b = Len(list) + 1
          <6>1. a \in 1..Len(list) /\ longer[a] = list[a]
            BY <4>1, <4>3, <5>2
          <6>2. list[a] \in Upto(j - 1)
            BY <3>4, <6>1
          <6>3. PICK i \in 1..(j - 1) : list[a] = Order[i]
            BY <6>2 DEF Upto
          <6>4. QED
            BY <3>3, <4>1, <5>2, <6>1, <6>3, OrderFacts
        <5>3. QED
          BY <4>1, <5>1, <5>2
      <4>4. Rising(longer)
        BY <4>3 DEF Rising
      <4>5. upto[j] = longer
        BY <3>2, <3>6 DEF longer
      <4>6. Elements(longer) = set \cap Upto(j)
        BY <3>4, <3>5, <3>6, <4>2
      <4>. HIDE DEF Elements
      <4>7. Right(j)
        BY <4>1, <4>4, <4>5, <4>6
      <4>8. QED
        BY <4>7 DEF Good
    <3>7. CASE Order[j] \notin set
      BY <3>2, <3>4, <3>5, <3>7 DEF Good
    <3>8. QED
      BY <3>6, <3>7
  <2>3. QED
    BY <2>1, <2>2
<1>2. ASSUME NEW j \in 0..Len(Order) PROVE Right(j)
  <2>. HIDE DEF Good
  <2>1. \A i \in 0..Len(Order) : (\A k \in 0..(i - 1) : k \in Good) => i \in Good
    BY <1>1
  <2>2. \A i \in 0..Len(Order) : i \in Good
    BY <2>1, Induction, OrderFacts
  <2>3. QED
    BY <2>2 DEF Good
<1>3. QED
  BY <1>2

(* A list: its elements, their order, none of them twice.                  *)
LEMMA ListedFacts ==
  ASSUME NEW set
  PROVE  /\ Listed(set) \in Seq(Paths) /\ Rising(Listed(set))
         /\ {Listed(set)[i] : i \in 1..Len(Listed(set))} = set \cap Paths
         /\ \A a, b \in 1..Len(Listed(set)) : Listed(set)[a] = Listed(set)[b] => a = b
<1>1. Listing(set, CHOOSE f : Listing(set, f))
  BY ListingExists
<1>. DEFINE upto == CHOOSE f : Listing(set, f)
<1>2. Listed(set) = upto[Len(Order)]
  BY DEF Listed, Listing
<1>. HIDE DEF upto
<1>3. Listing(set, upto)
  BY <1>1 DEF upto
<1>4. /\ Listed(set) \in Seq(Paths) /\ Rising(Listed(set))
      /\ {Listed(set)[i] : i \in 1..Len(Listed(set))} = set \cap {Order[k] : k \in 1..Len(Order)}
  BY <1>2, <1>3, ListingIsTyped, OrderFacts
<1>5. \A a, b \in 1..Len(Listed(set)) : a < b => Listed(set)[a] # Listed(set)[b]
  BY <1>4, PathAssumption, OrderFacts DEF Rising
<1>6. Len(Listed(set)) \in Nat
  BY <1>4, LenProperties
<1>7. QED
  BY <1>4, <1>5, <1>6 DEF Paths

-----------------------------------------------------------------------------
(* What the subcommands of nextufs do to an image.                         *)

LEMMA ImageFacts ==
  ASSUME NEW image, IsImage(image)
  PROVE  /\ image = [name |-> image.name, inode |-> image.inode]
         /\ Len(image.inode) \in Nat /\ DOMAIN image.inode = 1..Len(image.inode)
         /\ \A p \in DOMAIN image.name : p \in Paths /\ image.name[p] \in 1..Len(image.inode)
         /\ \A p \in DOMAIN image.name : IsNode(node(image, p))
         /\ \A k \in 1..Len(image.inode) : IsNode(image.inode[k])
BY LenProperties DEF IsImage, Image, node

LEMMA ImageMade ==
  ASSUME NEW name, NEW inode, NEW S, inode \in Seq(S), \A k \in 1..Len(inode) : IsNode(inode[k]),
         name = [p \in DOMAIN name |-> name[p]], DOMAIN name \subseteq Paths,
         \A p \in DOMAIN name : name[p] \in 1..Len(inode)
  PROVE  /\ IsImage(Image(name, inode))
         /\ Image(name, inode).name = name /\ Image(name, inode).inode = inode
<1>1. Image(name, inode).name = name /\ Image(name, inode).inode = inode
  BY DEF Image
<1>2. DOMAIN inode = 1..Len(inode)
  BY LenProperties
<1>3. inode \in Seq(Range(inode)) /\ Range(inode) = {inode[i] : i \in 1..Len(inode)}
  BY SeqOfRange, RangeEquality
<1>4. QED
  BY <1>1, <1>2, <1>3 DEF IsImage

LEMMA ImageRenamed ==
  ASSUME NEW image, IsImage(image), NEW name,
         name = [p \in DOMAIN name |-> name[p]], DOMAIN name \subseteq Paths,
         \A p \in DOMAIN name : name[p] \in 1..Len(image.inode)
  PROVE  LET new == Image(name, image.inode)
         IN IsImage(new) /\ new.name = name /\ new.inode = image.inode
<1>. DEFINE inode == image.inode
            S == {inode[k] : k \in DOMAIN inode}
<1>1. inode \in Seq(S) /\ \A k \in 1..Len(inode) : IsNode(inode[k])
  BY ImageFacts DEF IsImage
<1>. HIDE DEF inode, S
<1>2. \A p \in DOMAIN name : name[p] \in 1..Len(inode)
  BY DEF inode
<1>3. IsImage(Image(name, inode)) /\ Image(name, inode).name = name /\ Image(name, inode).inode = inode
  BY <1>1, <1>2, ImageMade
<1>4. QED
  BY <1>3 DEF inode

LEMMA NewFacts ==
  ASSUME NEW image, IsImage(image), NEW p \in Paths, NEW kind, NEW data, IsKind(kind, data),
         NEW new, new = New(image, p, kind, data)
  PROVE  /\ IsImage(new)
         /\ DOMAIN new.name = DOMAIN image.name \cup {p}
         /\ node(new, p) = [kind |-> kind, data |-> data, attr |-> "new"]
         /\ \A q \in DOMAIN image.name : image.name[q] # new.name[p]
         /\ \A q \in DOMAIN image.name : q # p => /\ new.name[q] = image.name[q]
                                                   /\ node(new, q) = node(image, q)
<1>. DEFINE n == [kind |-> kind, data |-> data, attr |-> "new"]
            Old == {image.inode[k] : k \in DOMAIN image.inode}
            inode == Append(image.inode, n)
            last == Len(image.inode) + 1
            name == [q \in DOMAIN image.name \cup {p} |-> IF q = p THEN last ELSE image.name[q]]
<1>1. image.inode \in Seq(Old \cup {n})
  BY SeqMonotonic DEF IsImage
<1>. HIDE DEF n
<1>2. /\ inode \in Seq(Old \cup {n}) /\ Len(inode) = last
      /\ \A k \in 1..Len(image.inode) : inode[k] = image.inode[k]
      /\ inode[last] = n
  BY <1>1, AppendProperties
<1>3. IsNode(n)
  BY DEF IsNode, n
<1>. HIDE DEF inode
<1>4. \A k \in 1..Len(inode) : IsNode(inode[k])
  BY <1>2, <1>3, ImageFacts
<1>5. DOMAIN name \subseteq Paths /\ name = [q \in DOMAIN name |-> name[q]]
  BY ImageFacts
<1>6. \A q \in DOMAIN name : name[q] \in 1..Len(inode)
  BY <1>2, ImageFacts
<1>7. new = Image(name, inode)
  BY DEF New, Named, Image, inode, n
<1>. HIDE DEF name, Old
<1>8. IsImage(new) /\ new.name = name /\ new.inode = inode
  BY <1>2, <1>4, <1>5, <1>6, <1>7, ImageMade
<1>9. DOMAIN name = DOMAIN image.name \cup {p} /\ name[p] = last
      /\ \A q \in DOMAIN image.name : q # p => name[q] = image.name[q]
  BY DEF name
<1>10. node(new, p) = n
  BY <1>2, <1>8, <1>9 DEF node
<1>11. ASSUME NEW q \in DOMAIN image.name
       PROVE  /\ image.name[q] # new.name[p]
              /\ q # p => new.name[q] = image.name[q]
              /\ q # p => node(new, q) = node(image, q)
  <2>1. image.name[q] \in 1..Len(image.inode) /\ Len(image.inode) \in Nat
    BY ImageFacts
  <2>2. image.name[q] # last
    BY <2>1
  <2>3. QED
    BY <1>2, <1>8, <1>9, <2>1, <2>2 DEF node
<1>12. QED
  BY <1>8, <1>9, <1>10, <1>11 DEF n

LEMMA NamedFacts ==
  ASSUME NEW image, IsImage(image), NEW p \in Paths, NEW s \in DOMAIN image.name,
         NEW new, new = Named(image, p, image.name[s])
  PROVE  /\ IsImage(new)
         /\ DOMAIN new.name = DOMAIN image.name \cup {p}
         /\ new.name[p] = image.name[s] /\ node(new, p) = node(image, s)
         /\ \A q \in DOMAIN image.name : q # p => /\ new.name[q] = image.name[q]
                                                   /\ node(new, q) = node(image, q)
<1>. DEFINE name == [q \in DOMAIN image.name \cup {p} |-> IF q = p THEN image.name[s] ELSE image.name[q]]
<1>1. DOMAIN name \subseteq Paths /\ name = [q \in DOMAIN name |-> name[q]]
      /\ \A q \in DOMAIN name : name[q] \in 1..Len(image.inode)
  BY ImageFacts
<1>2. new = Image(name, image.inode)
  BY DEF Named
<1>. HIDE DEF name
<1>3. IsImage(new) /\ new.name = name /\ new.inode = image.inode
  BY <1>1, <1>2, ImageRenamed
<1>4. QED
  BY <1>3 DEF node, name

LEMMA UnnamedFacts ==
  ASSUME NEW image, IsImage(image), NEW p, NEW new, new = Unnamed(image, p)
  PROVE  /\ IsImage(new)
         /\ DOMAIN new.name = DOMAIN image.name \ {p}
         /\ \A q \in DOMAIN new.name : /\ new.name[q] = image.name[q]
                                        /\ node(new, q) = node(image, q)
<1>. DEFINE name == [q \in DOMAIN image.name \ {p} |-> image.name[q]]
<1>1. DOMAIN name \subseteq Paths /\ name = [q \in DOMAIN name |-> name[q]]
      /\ \A q \in DOMAIN name : name[q] \in 1..Len(image.inode)
  BY ImageFacts
<1>2. new = Image(name, image.inode)
  BY DEF Unnamed
<1>. HIDE DEF name
<1>3. IsImage(new) /\ new.name = name /\ new.inode = image.inode
  BY <1>1, <1>2, ImageRenamed
<1>4. QED
  BY <1>3 DEF node, name

(* A node with another attribute.                                          *)
Marked(n, attr) == [kind |-> n.kind, data |-> n.data, attr |-> attr]

LEMMA ChmodFacts ==
  ASSUME NEW image, IsImage(image), NEW p, NEW attr, NEW new \in chmod(image, p, attr)
  PROVE  /\ IsImage(new) /\ new.name = image.name /\ p \in DOMAIN image.name
         /\ \A q \in DOMAIN image.name :
              node(new, q) = IF image.name[q] = image.name[p]
                             THEN Marked(node(image, q), attr) ELSE node(image, q)
<1>. DEFINE i == image.name[p]
            n == [image.inode[i] EXCEPT !.attr = attr]
            inode == [image.inode EXCEPT ![i] = n]
            Old == {image.inode[k] : k \in DOMAIN image.inode}
<1>1. p \in DOMAIN image.name /\ new = Image(image.name, inode)
  BY DEF chmod, Exists
<1>2. i \in 1..Len(image.inode) /\ IsNode(image.inode[i])
  BY <1>1, ImageFacts
<1>3. n = Marked(image.inode[i], attr) /\ IsNode(n)
  <2>1. image.inode[i] = [kind |-> image.inode[i].kind, data |-> image.inode[i].data,
                          attr |-> image.inode[i].attr]
    BY <1>2 DEF IsNode
  <2>. DEFINE kind == image.inode[i].kind
              data == image.inode[i].data
              old == image.inode[i].attr
  <2>2. image.inode[i] = [kind |-> kind, data |-> data, attr |-> old]
    BY <2>1
  <2>3. IsKind(kind, data)
    BY <1>2 DEF IsNode
  <2>4. Marked(image.inode[i], attr) = [kind |-> kind, data |-> data, attr |-> attr]
    BY DEF Marked
  <2>. HIDE DEF kind, data, old, i
  <2>5. n = [kind |-> kind, data |-> data, attr |-> attr]
    BY <2>2
  <2>6. QED
    BY <2>3, <2>4, <2>5 DEF IsNode
<1>. HIDE DEF n, i
<1>4. image.inode \in Seq(Old \cup {n}) /\ n \in Old \cup {n}
  BY SeqMonotonic DEF IsImage
<1>5. /\ inode \in Seq(Old \cup {n}) /\ Len(inode) = Len(image.inode)
      /\ \A k \in 1..Len(image.inode) : inode[k] = IF k = i THEN n ELSE image.inode[k]
  BY <1>2, <1>4, ExceptSeq
<1>. HIDE DEF inode, Old
<1>6. /\ \A k \in 1..Len(inode) : IsNode(inode[k])
      /\ \A q \in DOMAIN image.name : q \in Paths /\ image.name[q] \in 1..Len(inode)
  BY <1>3, <1>5, ImageFacts
<1>7. image.name = [q \in DOMAIN image.name |-> image.name[q]] /\ DOMAIN image.name \subseteq Paths
  BY DEF IsImage
<1>8. IsImage(new) /\ new.name = image.name /\ new.inode = inode
  BY <1>1, <1>5, <1>6, <1>7, ImageMade
<1>9. ASSUME NEW q \in DOMAIN image.name
      PROVE  node(new, q) = IF image.name[q] = image.name[p]
                            THEN Marked(node(image, q), attr) ELSE node(image, q)
  <2>1. image.name[q] \in 1..Len(image.inode)
    BY ImageFacts
  <2>2. QED
    BY <1>3, <1>5, <1>8, <2>1 DEF node, i
<1>10. QED
  BY <1>1, <1>8, <1>9

(* An image stays a tree if what is new in it has a directory to be in and *)
(* no directory goes from above a name that stays.                         *)
LEMMA TreeStays ==
  ASSUME NEW image, IsTree(image), NEW new,
         \A q \in DOMAIN new.name : q \in DOMAIN image.name \/ Free(image, q),
         \A q \in DOMAIN new.name :
           IsDirectory(image, Parent[q]) => IsDirectory(new, Parent[q])
  PROVE  IsTree(new)
BY DEF IsTree, Free

LEMMA MadeIsUFS ==
  ASSUME NEW image, IsUFS(image), NEW p \in Paths, Free(image, p), NEW new, IsImage(new),
         DOMAIN new.name = DOMAIN image.name \cup {p},
         \A q \in DOMAIN image.name : q # p => node(new, q) = node(image, q)
  PROVE  IsUFS(new)
<1>1. \A q : IsDirectory(image, q) => IsDirectory(new, q)
  BY DEF IsDirectory, Exists, Free
<1>2. IsTree(new)
  BY <1>1, TreeStays DEF IsUFS
<1>3. QED
  BY <1>2 DEF IsUFS

LEMMA TakenIsUFS ==
  ASSUME NEW image, IsUFS(image), NEW p, \A q \in DOMAIN image.name : q # p => Parent[q] # p
  PROVE  IsUFS(Unnamed(image, p))
<1>. DEFINE new == Unnamed(image, p)
<1>1. /\ IsImage(new) /\ DOMAIN new.name = DOMAIN image.name \ {p}
      /\ \A q \in DOMAIN new.name : node(new, q) = node(image, q)
  BY UnnamedFacts DEF IsUFS
<1>. HIDE DEF new
<1>2. \A q \in DOMAIN new.name : IsDirectory(image, Parent[q]) => IsDirectory(new, Parent[q])
  BY <1>1 DEF IsDirectory, Exists
<1>3. IsTree(new)
  BY <1>1, <1>2, TreeStays DEF IsUFS
<1>4. QED
  BY <1>1, <1>3 DEF IsUFS, new

LEMMA ChmodIsUFS ==
  ASSUME NEW image, IsUFS(image), NEW p, NEW attr, NEW new \in chmod(image, p, attr)
  PROVE  IsUFS(new)
<1>1. /\ IsImage(new) /\ new.name = image.name
      /\ \A q \in DOMAIN image.name : node(new, q).kind = node(image, q).kind
  BY ChmodFacts DEF Marked, IsUFS
<1>2. \A q : IsDirectory(image, q) => IsDirectory(new, q)
  BY <1>1 DEF IsDirectory, Exists
<1>3. IsTree(new)
  BY <1>1, <1>2, TreeStays DEF IsUFS
<1>4. QED
  BY <1>1, <1>3 DEF IsUFS

(* No directory is unlinked: what is not one has nothing in it.            *)
LEMMA UnlinkIsUFS ==
  ASSUME NEW image, IsUFS(image), NEW p, NEW new \in unlink(image, p)
  PROVE  IsUFS(new) /\ new = Unnamed(image, p) /\ p \in DOMAIN image.name
<1>1. new = Unnamed(image, p) /\ p \in DOMAIN image.name /\ ~IsDirectory(image, p)
  BY DEF unlink, Exists
<1>2. p \in Paths
  BY <1>1, ImageFacts DEF IsUFS
<1>3. \A q \in DOMAIN image.name : Parent[q] # p
  BY <1>1, <1>2, PathAssumption DEF IsUFS, IsTree
<1>4. QED
  BY <1>1, <1>3, TakenIsUFS

LEMMA RmdirIsUFS ==
  ASSUME NEW image, IsUFS(image), NEW p, NEW new \in rmdir(image, p)
  PROVE  IsUFS(new) /\ new = Unnamed(image, p) /\ p \in DOMAIN image.name
<1>1. /\ new = Unnamed(image, p) /\ p \in DOMAIN image.name
      /\ \A q \in DOMAIN image.name : Parent[q] # p
  BY DEF rmdir, IsDirectory, Exists
<1>2. QED
  BY <1>1, TakenIsUFS

(* What mkdir, from_file and symlink leave.                                *)
LEMMA CreatedIsUFS ==
  ASSUME NEW image, IsUFS(image), NEW p \in Paths, Free(image, p), NEW kind, NEW data, IsKind(kind, data),
         NEW new, new = New(image, p, kind, data)
  PROVE  IsUFS(new)
<1>1. IsImage(image)
  BY DEF IsUFS
<1>2. /\ IsImage(new) /\ DOMAIN new.name = DOMAIN image.name \cup {p}
      /\ \A q \in DOMAIN image.name : q # p => node(new, q) = node(image, q)
  <2>1. IsImage(new)
    BY <1>1, NewFacts
  <2>2. DOMAIN new.name = DOMAIN image.name \cup {p}
    BY <1>1, NewFacts
  <2>3. ASSUME NEW q \in DOMAIN image.name, q # p PROVE node(new, q) = node(image, q)
    BY <1>1, <2>3, NewFacts
  <2>4. QED
    BY <2>1, <2>2, <2>3
<1>3. QED
  BY <1>2, MadeIsUFS

LEMMA MkdirIsNew ==
  ASSUME NEW image, NEW p, NEW new \in mkdir(image, p)
  PROVE  Free(image, p) /\ new = New(image, p, "directory", "none")
BY DEF mkdir

LEMMA FileIsNew ==
  ASSUME NEW image, NEW p, NEW data, NEW new \in from_file(image, p, data)
  PROVE  Free(image, p) /\ \E d \in {data, "corrupt"} : new = New(image, p, "file", d)
BY DEF from_file

LEMMA SymlinkIsNew ==
  ASSUME NEW image, NEW p, NEW target, NEW new \in symlink(image, target, p)
  PROVE  Free(image, p) /\ new = New(image, p, "symlink", target)
BY DEF symlink

LEMMA LinkIsUFS ==
  ASSUME NEW image, IsUFS(image), NEW p \in Paths, NEW source, NEW new \in link(image, source, p)
  PROVE  /\ IsUFS(new) /\ new = Named(image, p, image.name[source])
         /\ source \in DOMAIN image.name /\ p \notin DOMAIN image.name
<1>1. /\ source \in DOMAIN image.name /\ new = Named(image, p, image.name[source])
      /\ Free(image, p) /\ p \notin DOMAIN image.name
  BY DEF link, Exists, Free
<1>2. /\ IsImage(new) /\ DOMAIN new.name = DOMAIN image.name \cup {p}
      /\ \A q \in DOMAIN image.name : q # p => node(new, q) = node(image, q)
  BY <1>1, NamedFacts DEF IsUFS
<1>3. IsUFS(new)
  BY <1>1, <1>2, MadeIsUFS
<1>4. QED
  BY <1>1, <1>3

-----------------------------------------------------------------------------
(* An image shows an origin and a content for every path if its names are  *)
(* the paths, twins are those of one origin, and what is there is the      *)
(* content or what nextufs wrote instead, which it did not to what was     *)
(* there before.                                                           *)
Written(n) == {n, [kind |-> n.kind, data |-> "corrupt", attr |-> n.attr]}

Shows(image, origin, what) ==
  /\ DOMAIN image.name = DOMAIN origin
  /\ \A p, q \in DOMAIN origin : image.name[p] = image.name[q] <=> origin[p] = origin[q]
  /\ \A p \in DOMAIN origin : IsNode(what[p]) /\ node(image, p) \in Written(what[p])
  /\ \A p \in DOMAIN origin : origin[p][1] = "base" => node(image, p) = what[p]

LEMMA ShowsTaken ==
  ASSUME NEW image, IsImage(image), NEW origin, NEW what, Shows(image, origin, what), NEW p,
         NEW new, new = Unnamed(image, p),
         NEW rest, DOMAIN rest = DOMAIN origin \ {p}, \A q \in DOMAIN rest : rest[q] = origin[q]
  PROVE  Shows(new, rest, what)
<1>1. /\ DOMAIN new.name = DOMAIN image.name \ {p}
      /\ \A q \in DOMAIN new.name : /\ new.name[q] = image.name[q]
                                     /\ node(new, q) = node(image, q)
  BY UnnamedFacts
<1>2. QED
  BY <1>1 DEF Shows

(* A function has one argument more; two functions agree.                  *)
Grown(f, g, p) ==
  DOMAIN g = DOMAIN f \cup {p} /\ p \notin DOMAIN f /\ \A q \in DOMAIN f : g[q] = f[q]

Agree(f, g, S) == \A q \in S : g[q] = f[q]

BringsNode(origin, what, more, with, p, kind, data) ==
  /\ p \in Paths /\ IsKind(kind, data)
  /\ Grown(origin, more, p) /\ \A q \in DOMAIN origin : more[p] # origin[q]
  /\ Agree(what, with, DOMAIN origin) /\ more[p][1] # "base"
  /\ IsNode(with[p]) /\ [kind |-> kind, data |-> data, attr |-> "new"] \in Written(with[p])

BringsName(origin, what, more, with, p, s) ==
  /\ p \in Paths /\ s \in DOMAIN origin
  /\ Grown(origin, more, p) /\ more[p] = origin[s]
  /\ Agree(what, with, DOMAIN origin) /\ with[p] = what[s]

LEMMA ShowsNew ==
  ASSUME NEW image, IsImage(image), NEW origin, NEW what, Shows(image, origin, what),
         NEW p, NEW kind, NEW data, NEW new, new = New(image, p, kind, data),
         NEW more, NEW with, BringsNode(origin, what, more, with, p, kind, data)
  PROVE  Shows(new, more, with)
<1>. /\ p \in Paths /\ p \notin DOMAIN origin /\ IsKind(kind, data)
     /\ DOMAIN more = DOMAIN origin \cup {p}
     /\ \A q \in DOMAIN origin : more[q] = origin[q] /\ more[p] # origin[q]
     /\ \A q \in DOMAIN origin : with[q] = what[q]
     /\ more[p][1] # "base" /\ IsNode(with[p]) /\ [kind |-> kind, data |-> data, attr |-> "new"] \in Written(with[p])
  BY DEF BringsNode, Grown, Agree
<1>1. /\ DOMAIN new.name = DOMAIN image.name \cup {p}
      /\ node(new, p) = [kind |-> kind, data |-> data, attr |-> "new"]
      /\ \A q \in DOMAIN image.name : image.name[q] # new.name[p]
      /\ \A q \in DOMAIN image.name : q # p => new.name[q] = image.name[q]
                                                /\ node(new, q) = node(image, q)
  BY NewFacts
<1>2. DOMAIN new.name = DOMAIN more
  BY <1>1 DEF Shows
<1>3. ASSUME NEW q \in DOMAIN more, NEW r \in DOMAIN more
      PROVE  new.name[q] = new.name[r] <=> more[q] = more[r]
  <2>1. CASE q \in DOMAIN origin /\ r \in DOMAIN origin
    BY <1>1, <2>1 DEF Shows
  <2>2. CASE q \in DOMAIN origin /\ r = p
    BY <1>1, <2>2 DEF Shows
  <2>3. CASE q = p /\ r \in DOMAIN origin
    BY <1>1, <2>3 DEF Shows
  <2>4. QED
    BY <2>1, <2>2, <2>3
<1>4. ASSUME NEW q \in DOMAIN more
      PROVE  /\ IsNode(with[q]) /\ node(new, q) \in Written(with[q])
             /\ more[q][1] = "base" => node(new, q) = with[q]
  <2>1. CASE q = p
    BY <1>1, <2>1
  <2>2. CASE q \in DOMAIN origin
    BY <1>1, <2>2 DEF Shows
  <2>3. QED
    BY <2>1, <2>2
<1>5. QED
  BY <1>2, <1>3, <1>4 DEF Shows

LEMMA ShowsLink ==
  ASSUME NEW image, IsImage(image), NEW origin, NEW what, Shows(image, origin, what),
         NEW p, NEW s, NEW new, new = Named(image, p, image.name[s]),
         NEW more, NEW with, BringsName(origin, what, more, with, p, s)
  PROVE  Shows(new, more, with)
<1>. /\ p \in Paths /\ p \notin DOMAIN origin /\ s \in DOMAIN origin
     /\ DOMAIN more = DOMAIN origin \cup {p} /\ more[p] = origin[s] /\ with[p] = what[s]
     /\ \A q \in DOMAIN origin : more[q] = origin[q]
     /\ \A q \in DOMAIN origin : with[q] = what[q]
  BY DEF BringsName, Grown, Agree
<1>1. s \in DOMAIN image.name
  BY DEF Shows
<1>2. /\ DOMAIN new.name = DOMAIN image.name \cup {p}
      /\ new.name[p] = image.name[s] /\ node(new, p) = node(image, s)
      /\ \A q \in DOMAIN image.name : q # p => /\ new.name[q] = image.name[q]
                                                /\ node(new, q) = node(image, q)
  BY <1>1, NamedFacts
<1>3. \A q \in DOMAIN origin : new.name[q] = image.name[q] /\ node(new, q) = node(image, q)
  BY <1>2 DEF Shows
<1>4. ASSUME NEW q \in DOMAIN more, NEW r \in DOMAIN more
      PROVE  new.name[q] = new.name[r] <=> more[q] = more[r]
  <2>1. CASE q \in DOMAIN origin /\ r \in DOMAIN origin
    BY <1>3, <2>1 DEF Shows
  <2>2. CASE q \in DOMAIN origin /\ r = p
    BY <1>2, <1>3, <2>2 DEF Shows
  <2>3. CASE q = p /\ r \in DOMAIN origin
    BY <1>2, <1>3, <2>3 DEF Shows
  <2>4. CASE q = p /\ r = p
    BY <2>4
  <2>5. QED
    BY <2>1, <2>2, <2>3, <2>4
<1>5. \A q \in DOMAIN more : /\ IsNode(with[q]) /\ node(new, q) \in Written(with[q])
                              /\ more[q][1] = "base" => node(new, q) = with[q]
  BY <1>2, <1>3 DEF Shows
<1>6. QED
  BY <1>2, <1>4, <1>5 DEF Shows

LEMMA ShowsChmod ==
  ASSUME NEW image, IsImage(image), NEW origin, NEW what, Shows(image, origin, what),
         NEW p, NEW attr, NEW new \in chmod(image, p, attr),
         NEW with,
         \A q \in DOMAIN origin :
           with[q] = IF origin[q] = origin[p] THEN Marked(what[q], attr) ELSE what[q]
  PROVE  Shows(new, origin, with)
<1>1. /\ new.name = image.name /\ p \in DOMAIN image.name
      /\ \A q \in DOMAIN image.name :
           node(new, q) = IF image.name[q] = image.name[p]
                          THEN Marked(node(image, q), attr) ELSE node(image, q)
  BY ChmodFacts
<1>2. ASSUME NEW q \in DOMAIN origin
      PROVE  /\ IsNode(with[q]) /\ node(new, q) \in Written(with[q])
             /\ origin[q][1] = "base" => node(new, q) = with[q]
  <2>1. /\ IsNode(what[q]) /\ node(image, q) \in Written(what[q])
        /\ origin[q][1] = "base" => node(image, q) = what[q]
    BY DEF Shows
  <2>2. CASE origin[q] = origin[p]
    <3>1. node(new, q) = Marked(node(image, q), attr)
      BY <1>1, <2>2 DEF Shows
    <3>2. with[q] = Marked(what[q], attr)
      BY <2>2
    <3>3. IsNode(Marked(what[q], attr))
      BY <2>1 DEF IsNode, Marked
    <3>4. Marked(node(image, q), attr) \in Written(Marked(what[q], attr))
      BY <2>1 DEF Written, Marked
    <3>5. QED
      BY <2>1, <3>1, <3>2, <3>3, <3>4
  <2>3. CASE origin[q] # origin[p]
    BY <1>1, <2>1, <2>3 DEF Shows
  <2>4. QED
    BY <2>2, <2>3
<1>3. QED
  BY <1>1, <1>2 DEF Shows

(* What shows what was meant is what a reader of the output must find.     *)
Means(origin, what, meant) ==
  /\ DOMAIN meant = DOMAIN origin
  /\ \A p \in DOMAIN origin : meant[p] = [what |-> what[p],
                                           twins |-> {q \in DOMAIN origin : origin[q] = origin[p]}]

LEMMA ShownMatches ==
  ASSUME NEW image, IsImage(image), NEW origin, NEW what, Shows(image, origin, what),
         NEW meant, Means(origin, what, meant)
  PROVE  Matches(View(image), meant)
<1>. /\ DOMAIN meant = DOMAIN origin
     /\ \A p \in DOMAIN origin : meant[p] = [what |-> what[p],
                                              twins |-> {q \in DOMAIN origin : origin[q] = origin[p]}]
  BY DEF Means
<1>. DEFINE seen == View(image)
<1>1. DOMAIN seen = DOMAIN meant
  BY DEF View, Shows
<1>2. ASSUME NEW p \in DOMAIN meant
      PROVE  /\ seen[p].twins = meant[p].twins
             /\ seen[p].what \in {meant[p].what, [meant[p].what EXCEPT !.data = "corrupt"]}
  <2>1. /\ seen[p].what = node(image, p)
        /\ seen[p].twins = {q \in DOMAIN image.name : image.name[q] = image.name[p]}
    BY <1>1 DEF View
  <2>2. seen[p].twins = meant[p].twins
    BY <2>1 DEF Shows
  <2>3. IsNode(what[p]) /\ node(image, p) \in Written(what[p]) /\ meant[p].what = what[p]
    BY DEF Shows
  <2>4. ASSUME NEW n, IsNode(n)
        PROVE  [n EXCEPT !.data = "corrupt"] = [kind |-> n.kind, data |-> "corrupt", attr |-> n.attr]
    <3>. DEFINE kind == n.kind
                data == n.data
                attr == n.attr
    <3>1. n = [kind |-> kind, data |-> data, attr |-> attr]
      BY <2>4 DEF IsNode
    <3>. HIDE DEF kind, data, attr
    <3>2. [n EXCEPT !.data = "corrupt"] = [kind |-> kind, data |-> "corrupt", attr |-> attr]
      BY <3>1
    <3>3. QED
      BY <3>2 DEF kind, attr
  <2>5. QED
    BY <2>1, <2>2, <2>3, <2>4 DEF Written
<1>3. QED
  BY <1>1, <1>2 DEF Matches

-----------------------------------------------------------------------------
(* An archive over an image: where each path's content comes from, member  *)
(* by member.                                                              *)

LEMMA MaxIs ==
  ASSUME NEW S \in SUBSET Nat, NEW m \in S, \A s \in S : s <= m
  PROVE  Max(S) = m
<1>1. \A x \in S : (\A y \in S : x >= y) => x = m
  OBVIOUS
<1>2. QED
  BY <1>1 DEF Max

LEMMA MaxOf ==
  ASSUME NEW b \in Nat, NEW S \in SUBSET (1..b), S # {}
  PROVE  Max(S) \in S /\ \A s \in S : s <= Max(S)
<1>1. PICK m \in S : \A s \in S : s <= m
  <2>1. S \in SUBSET (0..b)
    OBVIOUS
  <2>2. QED
    BY <2>1, GreatestNatural
<1>2. Max(S) = m
  BY <1>1, MaxIs
<1>3. QED
  BY <1>1, <1>2

There(members, image, k, p) == Exists(image, p) \/ \E i \in 1..(k - 1) : members[i].name = p

Makes(members, image, i, p) ==
  members[i].name = p /\ (members[i].do = "directory" => ~There(members, image, i, p))

Made(members, image, k, p) == {i \in 1..k : Makes(members, image, i, p)}

First(image, p) == IF Exists(image, p) THEN <<"base", image.name[p]>> ELSE <<"none", 0>>

Row(members, image, origin, k) ==
  [p \in Paths |->
     IF Made(members, image, k, p) = {} THEN First(image, p)
     ELSE LET last == Max(Made(members, image, k, p))
          IN IF members[last].do = "hardlink"
             THEN origin[last - 1][members[last].data]
             ELSE <<"member", last>>]

Origins(members, image, origin, n) ==
  origin = [k \in 0..n |-> Row(members, image, origin, k)]

LEMMA MadeGrows ==
  ASSUME NEW members, NEW image, NEW k \in Nat, NEW p
  PROVE  /\ Made(members, image, 0, p) = {}
         /\ Made(members, image, k + 1, p) =
              Made(members, image, k, p)
                \cup (IF Makes(members, image, k + 1, p) THEN {k + 1} ELSE {})
BY DEF Made

LEMMA LastIsMade ==
  ASSUME NEW members, NEW image, NEW k \in Nat, NEW p, Made(members, image, k, p) # {}
  PROVE  Max(Made(members, image, k, p)) \in 1..k
<1>1. Made(members, image, k, p) \in SUBSET (1..k)
  BY DEF Made
<1>2. QED
  BY <1>1, MaxOf

(* A row depends on earlier rows only.                                     *)
LEMMA RowsAgree ==
  ASSUME NEW members, NEW image, NEW k \in Nat, NEW f, NEW g, \A i \in 0..(k - 1) : f[i] = g[i]
  PROVE  Row(members, image, f, k) = Row(members, image, g, k)
<1>1. ASSUME NEW p, Made(members, image, k, p) # {}
      PROVE  LET last == Max(Made(members, image, k, p)) IN f[last - 1] = g[last - 1]
  BY <1>1, LastIsMade
<1>2. QED
  BY <1>1 DEF Row

LEMMA OriginsExist ==
  ASSUME NEW members, NEW image, NEW n \in Nat
  PROVE  \E origin : Origins(members, image, origin, n)
<1>. DEFINE Good == {k \in 0..n : \E f : Origins(members, image, f, k)}
<1>1. ASSUME NEW k \in 0..n, \A i \in 0..(k - 1) : i \in Good
      PROVE  k \in Good
  <2>1. CASE k = 0
    <3>. DEFINE f == [i \in 0..0 |-> Row(members, image, << >>, i)]
    <3>1. \A i \in 0..0 : Row(members, image, << >>, i) = Row(members, image, f, i)
      <4>1. ASSUME NEW i \in 0..0 PROVE \A l \in 0..(i - 1) : << >>[l] = f[l]
        OBVIOUS
      <4>. HIDE DEF f
      <4>2. QED
        BY <4>1, RowsAgree
    <3>2. Origins(members, image, f, 0)
      BY <3>1 DEF Origins
    <3>3. QED
      BY <2>1, <3>2
  <2>2. CASE k # 0
    <3>1. PICK f : Origins(members, image, f, k - 1)
      <4>1. k - 1 \in 0..(k - 1)
        BY <2>2
      <4>2. k - 1 \in Good
        <5>. HIDE DEF Good
        <5>1. QED
          BY <1>1, <4>1
      <4>3. QED
        BY <4>2
    <3>. DEFINE g == [i \in 0..k |-> IF i = k THEN Row(members, image, f, k) ELSE f[i]]
    <3>2. \A i \in 0..(k - 1) : g[i] = f[i] /\ f[i] = Row(members, image, f, i)
      BY <2>2, <3>1 DEF Origins
    <3>3. g[k] = Row(members, image, f, k) /\ g = [i \in 0..k |-> g[i]]
      OBVIOUS
    <3>. HIDE DEF g
    <3>4. ASSUME NEW i \in 0..k PROVE g[i] = Row(members, image, g, i)
      <4>1. \A l \in 0..(i - 1) : f[l] = g[l]
        BY <3>2
      <4>2. Row(members, image, f, i) = Row(members, image, g, i)
        BY <4>1, RowsAgree
      <4>3. QED
        BY <3>2, <3>3, <4>2
    <3>5. Origins(members, image, g, k)
      BY <3>3, <3>4 DEF Origins
    <3>6. QED
      BY <3>5
  <2>3. QED
    BY <2>1, <2>2
<1>2. \A k \in 0..n : k \in Good
  <2>. HIDE DEF Good
  <2>1. \A k \in 0..n : (\A i \in 0..(k - 1) : i \in Good) => k \in Good
    BY <1>1
  <2>2. QED
    BY <2>1, Induction
<1>3. QED
  BY <1>2

LEMMA OriginIs ==
  ASSUME NEW members, NEW image, Len(members) \in Nat
  PROVE  Origins(members, image, Origin(members, image), Len(members))
<1>1. Origins(members, image, CHOOSE f : Origins(members, image, f, Len(members)), Len(members))
  BY OriginsExist
<1>2. Origin(members, image) = CHOOSE f : Origins(members, image, f, Len(members))
  BY DEF Origin, Origins, Row, Made, Makes, There, First
<1>3. QED
  BY <1>1, <1>2

LEMMA OriginFirst ==
  ASSUME NEW members, NEW image, NEW n \in Nat, NEW origin, Origins(members, image, origin, n),
         NEW p \in Paths
  PROVE  origin[0][p] = First(image, p)
<1>1. origin[0] = Row(members, image, origin, 0)
  BY DEF Origins
<1>2. Row(members, image, origin, 0)[p] = First(image, p)
  BY MadeGrows DEF Row
<1>3. QED
  BY <1>1, <1>2

(* How a member changes where the paths come from.                         *)
LEMMA OriginStep ==
  ASSUME NEW members, NEW image, NEW n \in Nat, NEW origin, Origins(members, image, origin, n),
         NEW p \in Paths, NEW k \in Nat, k < n
  PROVE  origin[k + 1][p] =
           IF Makes(members, image, k + 1, p)
           THEN IF members[k + 1].do = "hardlink" THEN origin[k][members[k + 1].data]
                ELSE <<"member", k + 1>>
           ELSE origin[k][p]
<1>. DEFINE made(l) == Made(members, image, l, p)
            value(l) == IF made(l) = {} THEN First(image, p)
                        ELSE IF members[Max(made(l))].do = "hardlink"
                             THEN origin[Max(made(l)) - 1][members[Max(made(l))].data]
                             ELSE <<"member", Max(made(l))>>
<1>1. ASSUME NEW l \in 0..n PROVE origin[l][p] = value(l)
  <2>1. origin[l] = Row(members, image, origin, l)
    BY DEF Origins
  <2>2. Row(members, image, origin, l)[p] = value(l)
    BY DEF Row
  <2>3. QED
    BY <2>1, <2>2
<1>2. origin[k][p] = value(k) /\ origin[k + 1][p] = value(k + 1)
  BY <1>1
<1>. HIDE DEF value
<1>3. CASE Makes(members, image, k + 1, p)
  <2>1. made(k + 1) = made(k) \cup {k + 1} /\ made(k) \in SUBSET (1..k)
    BY <1>3, MadeGrows DEF Made
  <2>. HIDE DEF made
  <2>2. made(k + 1) \in SUBSET Nat /\ k + 1 \in made(k + 1) /\ \A s \in made(k + 1) : s <= k + 1
    BY <2>1
  <2>3. Max(made(k + 1)) = k + 1
    BY <2>2, MaxIs
  <2>4. QED
    BY <1>2, <1>3, <2>2, <2>3 DEF value
<1>4. CASE ~Makes(members, image, k + 1, p)
  <2>1. made(k + 1) = made(k)
    BY <1>4, MadeGrows
  <2>. HIDE DEF made
  <2>2. QED
    BY <1>2, <1>4, <2>1 DEF value
<1>5. QED
  BY <1>3, <1>4

(* A member marks what its path comes from.                                *)
LEMMA ContentStep ==
  ASSUME NEW members, NEW image, NEW origin, NEW k \in Nat, NEW o
  PROVE  Content(members, image, origin, k + 1, o) =
           IF o = origin[k + 1][members[k + 1].name]
           THEN Marked(Content(members, image, origin, k, o), members[k + 1].attr)
           ELSE Content(members, image, origin, k, o)
<1>. DEFINE touched(l) == {i \in 1..l : origin[i][members[i].name] = o}
            kind == IF o[1] = "base" THEN image.inode[o[2]].kind ELSE members[o[2]].do
            data == IF o[1] = "base" THEN image.inode[o[2]].data ELSE members[o[2]].data
            attr(l) == IF touched(l) # {} THEN members[Max(touched(l))].attr
                       ELSE image.inode[o[2]].attr
<1>1. \A l \in Nat : Content(members, image, origin, l, o) =
                       [kind |-> kind, data |-> data, attr |-> attr(l)]
  BY DEF Content
<1>2. CASE o = origin[k + 1][members[k + 1].name]
  <2>1. touched(k + 1) = touched(k) \cup {k + 1} /\ touched(k) \in SUBSET (1..k)
    BY <1>2
  <2>. HIDE DEF touched
  <2>2. touched(k + 1) \in SUBSET Nat /\ k + 1 \in touched(k + 1)
        /\ \A s \in touched(k + 1) : s <= k + 1
    BY <2>1
  <2>3. Max(touched(k + 1)) = k + 1
    BY <2>2, MaxIs
  <2>4. attr(k + 1) = members[k + 1].attr
    BY <2>2, <2>3
  <2>. HIDE DEF kind, data, attr
  <2>5. k \in Nat /\ k + 1 \in Nat
    OBVIOUS
  <2>6. /\ Content(members, image, origin, k, o) = [kind |-> kind, data |-> data, attr |-> attr(k)]
        /\ Content(members, image, origin, k + 1, o) =
             [kind |-> kind, data |-> data, attr |-> members[k + 1].attr]
    BY <1>1, <2>4, <2>5
  <2>7. QED
    BY <1>2, <2>6 DEF Marked
<1>3. CASE o # origin[k + 1][members[k + 1].name]
  <2>1. touched(k + 1) = touched(k)
    BY <1>3
  <2>. HIDE DEF touched
  <2>2. attr(k + 1) = attr(k)
    BY <2>1
  <2>. HIDE DEF kind, data, attr
  <2>3. QED
    BY <1>1, <1>3, <2>2
<1>4. QED
  BY <1>2, <1>3

(* What is in the way is unlinked.                                         *)
LEMMA ClearedShows ==
  ASSUME NEW image, IsUFS(image), NEW origin, NEW what, Shows(image, origin, what),
         NEW p, NEW new \in Cleared(image, p),
         NEW rest, rest = [q \in DOMAIN origin \ {p} |-> origin[q]]
  PROVE  IsUFS(new) /\ Shows(new, rest, what) /\ p \notin DOMAIN rest
<1>1. CASE Exists(image, p)
  <2>1. new \in unlink(image, p)
    BY <1>1 DEF Cleared
  <2>2. IsUFS(new) /\ new = Unnamed(image, p)
    BY <2>1, UnlinkIsUFS
  <2>3. DOMAIN rest = DOMAIN origin \ {p} /\ \A q \in DOMAIN rest : rest[q] = origin[q]
    OBVIOUS
  <2>4. Shows(new, rest, what)
    BY <2>2, <2>3, ShowsTaken DEF IsUFS
  <2>5. QED
    BY <2>2, <2>3, <2>4
<1>2. CASE ~Exists(image, p)
  <2>1. new = image
    BY <1>2 DEF Cleared
  <2>2. DOMAIN rest = DOMAIN origin /\ \A q \in DOMAIN rest : rest[q] = origin[q]
    BY <1>2 DEF Shows, Exists
  <2>3. QED
    BY <1>2, <2>1, <2>2 DEF Shows
<1>3. QED
  BY <1>1, <1>2

(* The images there may be after k members: what is there is right, and    *)
(* there is something where the image or a member put it.                  *)
OriginAt(origin, k) == [p \in {q \in Paths : origin[k][q] # <<"none", 0>>} |-> origin[k][p]]

ContentAt(members, image, origin, k) ==
  [p \in Paths |-> Content(members, image, origin, k, origin[k][p])]

Partial(members, image, origin, k, draft) ==
  /\ IsUFS(draft)
  /\ Shows(draft, OriginAt(origin, k), ContentAt(members, image, origin, k))
  /\ \A p \in Paths : /\ origin[k][p] # <<"none", 0>> <=> There(members, image, k + 1, p)
                      /\ \A i \in Nat : origin[k][p] = <<"member", i>> => i <= k

LEMMA PartialFirst ==
  ASSUME NEW members, NEW image, IsUFS(image), NEW n \in Nat,
         NEW origin, Origins(members, image, origin, n)
  PROVE  Partial(members, image, origin, 0, image)
<1>. DEFINE O == OriginAt(origin, 0)
            C == ContentAt(members, image, origin, 0)
<1>1. ASSUME NEW p \in Paths
      PROVE  /\ p \in DOMAIN image.name => origin[0][p] = <<"base", image.name[p]>>
             /\ p \notin DOMAIN image.name => origin[0][p] = <<"none", 0>>
             /\ \A i : origin[0][p] # <<"member", i>>
             /\ p \in DOMAIN image.name <=> origin[0][p] # <<"none", 0>>
  <2>1. origin[0][p] = First(image, p)
    BY OriginFirst
  <2>2. \A i, n1, n2 : /\ <<"base", i>> # <<"none", n1>>
                       /\ <<"base", i>> # <<"member", n2>> /\ <<"none", n1>> # <<"member", n2>>
    OBVIOUS
  <2>3. QED
    BY <2>1, <2>2 DEF First, Exists
<1>2. DOMAIN O = DOMAIN image.name /\ \A p \in DOMAIN O : O[p] = <<"base", image.name[p]>>
  <2>1. DOMAIN image.name \subseteq Paths
    BY DEF IsUFS, IsImage
  <2>2. QED
    BY <1>1, <2>1 DEF OriginAt
<1>3. ASSUME NEW p \in DOMAIN image.name PROVE C[p] = node(image, p) /\ IsNode(C[p])
  <2>1. p \in Paths /\ IsNode(node(image, p))
    BY ImageFacts DEF IsUFS
  <2>2. C[p] = Content(members, image, origin, 0, <<"base", image.name[p]>>)
    BY <1>1, <2>1 DEF ContentAt
  <2>3. C[p] = [kind |-> node(image, p).kind, data |-> node(image, p).data,
                attr |-> node(image, p).attr]
    BY <2>2 DEF Content, node
  <2>4. QED
    BY <2>1, <2>3 DEF IsNode
<1>4. Shows(image, O, C)
  <2>. HIDE DEF O, C
  <2>1. \A p, q \in DOMAIN O : image.name[p] = image.name[q] <=> O[p] = O[q]
    BY <1>2
  <2>2. QED
    BY <1>2, <1>3, <2>1 DEF Shows, Written
<1>5. \A p \in Paths : /\ origin[0][p] # <<"none", 0>> <=> There(members, image, 1, p)
                       /\ \A i \in Nat : origin[0][p] = <<"member", i>> => i <= 0
  BY <1>1 DEF There, Exists
<1>6. QED
  BY <1>4, <1>5 DEF Partial

(* One member more.                                                        *)
Overlaid(members, image, origin, k, draft) ==
  /\ IsUFS(image) /\ Len(members) \in Nat /\ k \in 0..(Len(members) - 1)
  /\ \A i \in 1..Len(members) : IsMember(members[i])
  /\ Origins(members, image, origin, Len(members))
  /\ Partial(members, image, origin, k, draft)

(* What there is when the member is made and not yet marked.               *)
Unmarked(members, image, origin, k) ==
  [p \in Paths |->
     IF origin[k + 1][p] = <<"member", k + 1>>
     THEN [kind |-> members[k + 1].do, data |-> members[k + 1].data, attr |-> "new"]
     ELSE Content(members, image, origin, k, origin[k + 1][p])]

LEMMA NamesPath ==
  ASSUME NEW members, NEW image, NEW origin, NEW k \in Nat, NEW draft,
         Overlaid(members, image, origin, k, draft)
  PROVE  members[k + 1].name \in Paths /\ IsMember(members[k + 1])
<1>1. k + 1 \in 1..Len(members)
  BY DEF Overlaid
<1>2. QED
  BY <1>1 DEF Overlaid, IsMember

LEMMA RowStays ==
  ASSUME NEW members, NEW image, NEW origin, NEW k \in Nat, NEW draft,
         Overlaid(members, image, origin, k, draft),
         NEW q \in Paths, q # members[k + 1].name
  PROVE  origin[k + 1][q] = origin[k][q]
<1>1. Len(members) \in Nat /\ k < Len(members) /\ Origins(members, image, origin, Len(members))
  BY DEF Overlaid
<1>2. ~Makes(members, image, k + 1, q)
  BY DEF Makes
<1>3. origin[k + 1][q] =
        IF Makes(members, image, k + 1, q)
        THEN IF members[k + 1].do = "hardlink" THEN origin[k][members[k + 1].data]
             ELSE <<"member", k + 1>>
        ELSE origin[k][q]
  BY <1>1, OriginStep
<1>4. QED
  BY <1>2, <1>3

LEMMA RowMoves ==
  ASSUME NEW members, NEW image, NEW origin, NEW k \in Nat, NEW draft,
         Overlaid(members, image, origin, k, draft), NEW p, p = members[k + 1].name
  PROVE  origin[k + 1][p] = IF members[k + 1].do = "directory" /\ There(members, image, k + 1, p)
                            THEN origin[k][p]
                            ELSE IF members[k + 1].do = "hardlink"
                                 THEN origin[k][members[k + 1].data]
                                 ELSE <<"member", k + 1>>
<1>1. Len(members) \in Nat /\ k < Len(members) /\ Origins(members, image, origin, Len(members))
  BY DEF Overlaid
<1>2. p \in Paths
  BY NamesPath
<1>3. origin[k + 1][p] =
        IF Makes(members, image, k + 1, p)
        THEN IF members[k + 1].do = "hardlink" THEN origin[k][members[k + 1].data]
             ELSE <<"member", k + 1>>
        ELSE origin[k][p]
  BY <1>1, <1>2, OriginStep
<1>4. QED
  BY <1>3 DEF Makes

LEMMA MarkedContent ==
  ASSUME NEW members, NEW image, NEW origin, NEW k \in Nat, NEW draft,
         Overlaid(members, image, origin, k, draft), NEW p, p = members[k + 1].name,
         NEW q \in Paths
  PROVE  ContentAt(members, image, origin, k + 1)[q] =
           IF origin[k + 1][q] = origin[k + 1][p]
           THEN Marked(Unmarked(members, image, origin, k)[q], members[k + 1].attr)
           ELSE Unmarked(members, image, origin, k)[q]
<1>. DEFINE o == origin[k + 1][q]
            c == Content(members, image, origin, k, o)
<1>1. ContentAt(members, image, origin, k + 1)[q] =
        IF o = origin[k + 1][p] THEN Marked(c, members[k + 1].attr) ELSE c
  <2>1. p \in Paths
    BY NamesPath
  <2>2. ContentAt(members, image, origin, k + 1)[q] = Content(members, image, origin, k + 1, o)
    BY DEF ContentAt
  <2>. HIDE DEF o
  <2>3. QED
    BY <2>2, ContentStep
<1>2. CASE o = <<"member", k + 1>>
  <2>1. o = origin[k + 1][p]
    <3>1. CASE q = p
      BY <3>1
    <3>2. CASE q # p
      <4>1. o = origin[k][q]
        BY <3>2, RowStays
      <4>2. \A i \in Nat : origin[k][q] = <<"member", i>> => i <= k
        BY DEF Overlaid, Partial
      <4>3. QED
        BY <1>2, <4>1, <4>2
    <3>3. QED
      BY <3>1, <3>2
  <2>2. Unmarked(members, image, origin, k)[q] =
          [kind |-> members[k + 1].do, data |-> members[k + 1].data, attr |-> "new"]
    BY <1>2 DEF Unmarked
  <2>3. c.kind = members[k + 1].do /\ c.data = members[k + 1].data
    <3>1. o[1] = "member" /\ o[2] = k + 1
      BY <1>2
    <3>. HIDE DEF o
    <3>2. QED
      BY <3>1 DEF Content
  <2>. HIDE DEF o, c
  <2>4. QED
    BY <1>1, <2>1, <2>2, <2>3 DEF Marked, o
<1>3. CASE o # <<"member", k + 1>>
  <2>1. Unmarked(members, image, origin, k)[q] = c
    BY <1>3 DEF Unmarked
  <2>2. QED
    BY <1>1, <2>1
<1>4. QED
  BY <1>2, <1>3

LEMMA MarkedPartial ==
  ASSUME NEW members, NEW image, NEW origin, NEW k \in Nat, NEW draft,
         Overlaid(members, image, origin, k, draft), NEW p, p = members[k + 1].name,
         members[k + 1].do = "hardlink" => origin[k][members[k + 1].data] # <<"none", 0>>,
         NEW mid, IsUFS(mid),
         Shows(mid, OriginAt(origin, k + 1), Unmarked(members, image, origin, k)),
         NEW new \in chmod(mid, p, members[k + 1].attr)
  PROVE  Partial(members, image, origin, k + 1, new)
<1>. DEFINE O == OriginAt(origin, k + 1)
            C == ContentAt(members, image, origin, k + 1)
            U == Unmarked(members, image, origin, k)
            attr == members[k + 1].attr
<1>1. IsUFS(new)
  BY ChmodIsUFS
<1>2. p \in Paths /\ k + 1 \in Nat
  BY NamesPath
<1>3. p \in DOMAIN O
  BY ChmodFacts DEF Shows, IsUFS
<1>4. \A q \in DOMAIN O : q \in Paths /\ O[q] = origin[k + 1][q]
  BY DEF OriginAt
<1>5. \A q \in DOMAIN O : C[q] = IF O[q] = O[p] THEN Marked(U[q], attr) ELSE U[q]
  BY <1>3, <1>4, MarkedContent
<1>. HIDE DEF O, C, U, attr
<1>6. Shows(new, O, C)
  <2>1. IsImage(mid) /\ Shows(mid, O, U) /\ new \in chmod(mid, p, attr)
    BY DEF IsUFS, O, U, attr
  <2>2. QED
    BY <1>5, <2>1, ShowsChmod
<1>7. ASSUME NEW q \in Paths
      PROVE  /\ origin[k + 1][q] # <<"none", 0>> <=> There(members, image, k + 1 + 1, q)
             /\ \A i \in Nat : origin[k + 1][q] = <<"member", i>> => i <= k + 1
  <2>1. /\ origin[k][q] # <<"none", 0>> <=> There(members, image, k + 1, q)
        /\ \A i \in Nat : origin[k][q] = <<"member", i>> => i <= k
    BY DEF Overlaid, Partial
  <2>2. There(members, image, k + 1 + 1, q) <=> There(members, image, k + 1, q) \/ q = p
    BY <1>2 DEF There
  <2>3. CASE q # p
    <3>1. q # members[k + 1].name
      BY <2>3
    <3>2. origin[k + 1][q] = origin[k][q]
      BY <3>1, RowStays
    <3>3. QED
      BY <1>2, <2>1, <2>2, <2>3, <3>2
  <2>4. CASE q = p
    <3>1. origin[k + 1][p] # <<"none", 0>>
      BY <1>3, <1>4 DEF O, OriginAt
    <3>2. ASSUME NEW i \in Nat, origin[k + 1][p] = <<"member", i>> PROVE i <= k + 1
      <4>1. CASE origin[k + 1][p] = origin[k][p]
        BY <1>2, <2>1, <2>4, <3>2, <4>1
      <4>2. CASE members[k + 1].do = "hardlink" /\ origin[k + 1][p] = origin[k][members[k + 1].data]
        <5>1. members[k + 1].data \in Paths
          BY <1>2, <4>2 DEF Overlaid, IsMember
        <5>2. \A l \in Nat : origin[k][members[k + 1].data] = <<"member", l>> => l <= k
          BY <5>1 DEF Overlaid, Partial
        <5>3. QED
          BY <1>2, <3>2, <4>2, <5>2
      <4>3. CASE origin[k + 1][p] = <<"member", k + 1>>
        BY <1>2, <3>2, <4>3
      <4>4. origin[k + 1][p] = IF members[k + 1].do = "directory" /\ There(members, image, k + 1, p)
                               THEN origin[k][p]
                               ELSE IF members[k + 1].do = "hardlink"
                                    THEN origin[k][members[k + 1].data]
                                    ELSE <<"member", k + 1>>
        BY RowMoves
      <4>5. QED
        BY <4>1, <4>2, <4>3, <4>4
    <3>3. QED
      BY <2>2, <2>4, <3>1, <3>2
  <2>5. QED
    BY <2>3, <2>4
<1>8. QED
  BY <1>1, <1>6, <1>7 DEF Partial, O, C

(* The path of a member, and that something is there.                      *)
Names(members, i, p) == members[i].name = p

Has(origin, k, p) == origin[k][p] # <<"none", 0>>

Rest(f, p) == [q \in DOMAIN f \ {p} |-> f[q]]

LEMMA RestOfOrigin ==
  ASSUME NEW members, NEW image, NEW origin, NEW k \in Nat, NEW draft,
         Overlaid(members, image, origin, k, draft), NEW p, Names(members, k + 1, p),
         Has(origin, k + 1, p)
  PROVE  Grown(Rest(OriginAt(origin, k), p), OriginAt(origin, k + 1), p)
<1>. DEFINE R == Rest(OriginAt(origin, k), p)
            N == OriginAt(origin, k + 1)
<1>1. p \in Paths
  BY NamesPath DEF Names
<1>2. \A q \in Paths : q # p => origin[k + 1][q] = origin[k][q]
  BY RowStays DEF Names
<1>3. /\ DOMAIN R = {q \in Paths : origin[k][q] # <<"none", 0>>} \ {p}
      /\ \A q \in DOMAIN R : R[q] = origin[k][q]
  BY DEF Rest, OriginAt
<1>4. /\ DOMAIN N = {q \in Paths : origin[k + 1][q] # <<"none", 0>>}
      /\ \A q \in DOMAIN N : N[q] = origin[k + 1][q]
  BY DEF OriginAt
<1>. HIDE DEF R, N
<1>5. Grown(R, N, p)
  BY <1>1, <1>2, <1>3, <1>4 DEF Has, Grown
<1>6. QED
  BY <1>5 DEF R, N

(* No path has come from a member that is still to come.                   *)
LEMMA NoneYet ==
  ASSUME NEW members, NEW image, NEW origin, NEW k \in Nat, NEW draft,
         Overlaid(members, image, origin, k, draft)
  PROVE  \A q \in Paths : origin[k][q] # <<"member", k + 1>>
<1>1. \A q \in Paths : \A i \in Nat : origin[k][q] = <<"member", i>> => i <= k
  BY DEF Overlaid, Partial
<1>2. QED
  BY <1>1

(* What the member does not make is not marked yet.                        *)
LEMMA OldUnmarked ==
  ASSUME NEW members, NEW image, NEW origin, NEW k \in Nat, NEW draft,
         Overlaid(members, image, origin, k, draft), NEW p, Names(members, k + 1, p)
  PROVE  Agree(ContentAt(members, image, origin, k), Unmarked(members, image, origin, k),
               DOMAIN Rest(OriginAt(origin, k), p))
<1>1. ASSUME NEW q \in Paths, q # p
      PROVE  Unmarked(members, image, origin, k)[q] = ContentAt(members, image, origin, k)[q]
  <2>1. origin[k + 1][q] = origin[k][q]
    BY <1>1, RowStays DEF Names
  <2>2. origin[k][q] # <<"member", k + 1>>
    BY NoneYet
  <2>3. QED
    BY <2>1, <2>2 DEF Unmarked, ContentAt
<1>2. \A q \in DOMAIN Rest(OriginAt(origin, k), p) : q \in Paths /\ q # p
  BY DEF Rest, OriginAt
<1>3. QED
  BY <1>1, <1>2 DEF Agree

Fresh(origin, k, p) == origin[k][p] = <<"member", k>>

LEMMA FreshUnmarked ==
  ASSUME NEW members, NEW image, NEW origin, NEW k \in Nat, NEW draft,
         Overlaid(members, image, origin, k, draft), NEW p, Names(members, k + 1, p),
         Fresh(origin, k + 1, p), NEW mid, IsUFS(mid), Free(mid, p),
         Shows(mid, Rest(OriginAt(origin, k), p), ContentAt(members, image, origin, k)),
         NEW kind, members[k + 1].do = kind, IsKind(kind, members[k + 1].data),
         NEW d, d \in {members[k + 1].data, "corrupt"}, IsKind(kind, d),
         NEW new, new = New(mid, p, kind, d)
  PROVE  IsUFS(new) /\ Shows(new, OriginAt(origin, k + 1), Unmarked(members, image, origin, k))
<1>. DEFINE R == Rest(OriginAt(origin, k), p)
            N == OriginAt(origin, k + 1)
            C == ContentAt(members, image, origin, k)
            U == Unmarked(members, image, origin, k)
<1>1. p \in Paths
  BY NamesPath DEF Names
<1>2. IsUFS(new)
  BY <1>1, CreatedIsUFS
<1>3. Grown(R, N, p)
  <2>1. Has(origin, k + 1, p)
    BY DEF Has, Fresh
  <2>2. QED
    BY <2>1, RestOfOrigin
<1>4. \A q \in DOMAIN R : N[p] # R[q]
  <2>1. N[p] = <<"member", k + 1>>
    BY <1>1 DEF OriginAt, Fresh
  <2>2. \A q \in DOMAIN R : q \in Paths /\ R[q] = origin[k][q]
    BY DEF OriginAt, Rest
  <2>. HIDE DEF R, N
  <2>3. QED
    BY <2>1, <2>2, NoneYet
<1>5. Agree(C, U, DOMAIN R)
  BY OldUnmarked
<1>6. IsNode(U[p]) /\ [kind |-> kind, data |-> d, attr |-> "new"] \in Written(U[p])
  <2>1. U[p] = [kind |-> kind, data |-> members[k + 1].data, attr |-> "new"]
    BY <1>1 DEF Unmarked, Fresh
  <2>2. QED
    BY <2>1 DEF IsNode, Written
<1>7. BringsNode(R, C, N, U, p, kind, d)
  <2>1. N[p] = <<"member", k + 1>>
    BY <1>1 DEF OriginAt, Fresh
  <2>2. N[p][1] # "base"
    BY <2>1
  <2>. HIDE DEF R, C, N, U
  <2>3. QED
    BY <1>1, <1>3, <1>4, <1>5, <1>6, <2>2 DEF BringsNode
<1>8. Shows(new, N, U)
  BY <1>7, ShowsNew DEF IsUFS
<1>9. QED
  BY <1>2, <1>8

LEMMA LinkUnmarked ==
  ASSUME NEW members, NEW image, NEW origin, NEW k \in Nat, NEW draft,
         Overlaid(members, image, origin, k, draft), NEW p, Names(members, k + 1, p),
         NEW s, origin[k + 1][p] = origin[k][s],
         NEW mid, IsUFS(mid),
         Shows(mid, Rest(OriginAt(origin, k), p), ContentAt(members, image, origin, k)),
         NEW new \in link(mid, s, p)
  PROVE  /\ IsUFS(new) /\ Shows(new, OriginAt(origin, k + 1), Unmarked(members, image, origin, k))
         /\ Has(origin, k, s)
<1>. DEFINE R == Rest(OriginAt(origin, k), p)
            N == OriginAt(origin, k + 1)
            C == ContentAt(members, image, origin, k)
            U == Unmarked(members, image, origin, k)
<1>1. p \in Paths
  BY NamesPath DEF Names
<1>2. IsUFS(new) /\ new = Named(mid, p, mid.name[s]) /\ s \in DOMAIN mid.name
  BY <1>1, LinkIsUFS
<1>3. s \in DOMAIN R
  BY <1>2 DEF Shows
<1>4. s \in Paths /\ R[s] = origin[k][s] /\ Has(origin, k, s) /\ Has(origin, k + 1, p)
  BY <1>3 DEF Rest, OriginAt, Has
<1>5. Grown(R, N, p)
  BY <1>4, RestOfOrigin
<1>6. Agree(C, U, DOMAIN R)
  BY OldUnmarked
<1>7. U[p] = C[s] /\ N[p] = R[s]
  <2>1. origin[k][s] # <<"member", k + 1>>
    BY <1>4, NoneYet
  <2>2. U[p] = C[s]
    BY <1>1, <1>4, <2>1 DEF Unmarked, ContentAt
  <2>3. N[p] = origin[k + 1][p]
    BY <1>1, <1>4 DEF OriginAt, Has
  <2>4. QED
    BY <1>4, <2>2, <2>3
<1>8. BringsName(R, C, N, U, p, s)
  BY <1>1, <1>3, <1>5, <1>6, <1>7 DEF BringsName
<1>9. Shows(new, N, U)
  BY <1>2, <1>8, ShowsLink DEF IsUFS
<1>10. QED
  BY <1>2, <1>4, <1>9

(* A directory that is there is only marked.                               *)
LEMMA KeptUnmarked ==
  ASSUME NEW members, NEW image, NEW origin, NEW k \in Nat, NEW draft,
         Overlaid(members, image, origin, k, draft), NEW p, Names(members, k + 1, p),
         origin[k + 1][p] = origin[k][p]
  PROVE  Shows(draft, OriginAt(origin, k + 1), Unmarked(members, image, origin, k))
<1>1. \A q \in Paths : origin[k + 1][q] = origin[k][q]
  BY RowStays DEF Names
<1>2. OriginAt(origin, k + 1) = OriginAt(origin, k)
  BY <1>1 DEF OriginAt
<1>3. \A q \in Paths : origin[k][q] # <<"member", k + 1>>
  <2>1. \A q \in Paths : \A i \in Nat : origin[k][q] = <<"member", i>> => i <= k
    BY DEF Overlaid, Partial
  <2>2. QED
    BY <2>1
<1>4. Unmarked(members, image, origin, k) = ContentAt(members, image, origin, k)
  BY <1>1, <1>3 DEF Unmarked, ContentAt
<1>5. QED
  BY <1>2, <1>4 DEF Overlaid, Partial

(* What Applied makes before it marks it.                                  *)
Brought(image, m) ==
  LET p == m.name
  IN CASE m.do = "directory" -> IF Exists(image, p) THEN {image} ELSE mkdir(image, p)
       [] m.do = "file" -> UNION {from_file(i, p, m.data) : i \in Cleared(image, p)}
       [] m.do = "symlink" -> UNION {symlink(i, m.data, p) : i \in Cleared(image, p)}
       [] m.do = "hardlink" -> UNION {link(i, m.data, p) : i \in Cleared(image, p)}

LEMMA AppliedIsMarked ==
  ASSUME NEW image, NEW m, NEW new \in Applied(image, m)
  PROVE  \E mid \in Brought(image, m) : new \in chmod(mid, m.name, m.attr)
BY DEF Applied, Brought

LEMMA WorkingIsSound ==
  ASSUME NEW members, NEW image, NEW origin, NEW k \in Nat, NEW draft,
         Overlaid(members, image, origin, k, draft), NEW p, Names(members, k + 1, p)
  PROVE  /\ IsUFS(draft) /\ p \in Paths
         /\ Shows(draft, OriginAt(origin, k), ContentAt(members, image, origin, k))
         /\ Exists(draft, p) <=> There(members, image, k + 1, p)
<1>1. p \in Paths
  BY NamesPath DEF Names
<1>2. IsUFS(draft) /\ Shows(draft, OriginAt(origin, k), ContentAt(members, image, origin, k))
  BY DEF Overlaid, Partial
<1>3. origin[k][p] # <<"none", 0>> <=> There(members, image, k + 1, p)
  BY <1>1 DEF Overlaid, Partial
<1>4. p \in DOMAIN OriginAt(origin, k) <=> origin[k][p] # <<"none", 0>>
  BY <1>1 DEF OriginAt
<1>5. DOMAIN draft.name = DOMAIN OriginAt(origin, k)
  BY <1>2 DEF Shows
<1>6. QED
  BY <1>1, <1>2, <1>3, <1>4, <1>5 DEF Exists

LEMMA ClearedUnmarked ==
  ASSUME NEW members, NEW image, NEW origin, NEW k \in Nat, NEW draft,
         Overlaid(members, image, origin, k, draft), NEW p, Names(members, k + 1, p),
         NEW mid \in Cleared(draft, p)
  PROVE  /\ IsUFS(mid)
         /\ Shows(mid, Rest(OriginAt(origin, k), p), ContentAt(members, image, origin, k))
<1>1. IsUFS(draft) /\ Shows(draft, OriginAt(origin, k), ContentAt(members, image, origin, k))
  BY WorkingIsSound
<1>2. QED
  BY <1>1, ClearedShows DEF Rest

LEMMA BroughtUnmarked ==
  ASSUME NEW members, NEW image, NEW origin, NEW k \in Nat, NEW draft,
         Overlaid(members, image, origin, k, draft), NEW mid \in Brought(draft, members[k + 1])
  PROVE  /\ IsUFS(mid)
         /\ Shows(mid, OriginAt(origin, k + 1), Unmarked(members, image, origin, k))
         /\ members[k + 1].do = "hardlink" => Has(origin, k, members[k + 1].data)
<1>. DEFINE m == members[k + 1]
            p == m.name
<1>1. IsMember(m) /\ Names(members, k + 1, p)
  BY NamesPath DEF Names
<1>2. /\ IsUFS(draft) /\ p \in Paths
      /\ Shows(draft, OriginAt(origin, k), ContentAt(members, image, origin, k))
      /\ Exists(draft, p) <=> There(members, image, k + 1, p)
  BY <1>1, WorkingIsSound
<1>3. origin[k + 1][p] = IF m.do = "directory" /\ There(members, image, k + 1, p)
                         THEN origin[k][p]
                         ELSE IF m.do = "hardlink" THEN origin[k][m.data]
                         ELSE <<"member", k + 1>>
  BY RowMoves
<1>4. CASE m.do = "directory"
  <2>1. CASE Exists(draft, p)
    <3>1. mid = draft
      BY <1>4, <2>1 DEF Brought
    <3>2. origin[k + 1][p] = origin[k][p]
      BY <1>2, <1>3, <1>4, <2>1
    <3>3. Shows(draft, OriginAt(origin, k + 1), Unmarked(members, image, origin, k))
      BY <1>1, <3>2, KeptUnmarked
    <3>4. QED
      BY <1>2, <1>4, <3>1, <3>3
  <2>2. CASE ~Exists(draft, p)
    <3>1. mid \in mkdir(draft, p)
      BY <1>4, <2>2 DEF Brought
    <3>2. Free(draft, p) /\ mid = New(draft, p, "directory", "none")
      BY <3>1, MkdirIsNew
    <3>3. Fresh(origin, k + 1, p)
      BY <1>2, <1>3, <1>4, <2>2 DEF Fresh
    <3>4. draft \in Cleared(draft, p)
      BY <2>2 DEF Cleared
    <3>5. Shows(draft, Rest(OriginAt(origin, k), p), ContentAt(members, image, origin, k))
      BY <1>1, <3>4, ClearedUnmarked
    <3>6. IsKind("directory", m.data) /\ m.data = "none" /\ "none" \in {m.data, "corrupt"}
      BY <1>1, <1>4 DEF IsMember, Kinds, IsKind
    <3>7. IsUFS(mid) /\ Shows(mid, OriginAt(origin, k + 1), Unmarked(members, image, origin, k))
      BY <1>1, <1>2, <1>4, <3>2, <3>3, <3>5, <3>6, FreshUnmarked
    <3>8. QED
      BY <1>4, <3>7
  <2>3. QED
    BY <2>1, <2>2
<1>5. CASE m.do = "file"
  <2>1. PICK i \in Cleared(draft, p) : mid \in from_file(i, p, m.data)
    BY <1>5 DEF Brought
  <2>2. PICK d \in {m.data, "corrupt"} : Free(i, p) /\ mid = New(i, p, "file", d)
    BY <2>1, FileIsNew
  <2>3. Fresh(origin, k + 1, p) /\ IsKind("file", d) /\ IsKind("file", m.data)
    BY <1>3, <1>5 DEF Fresh, Kinds, IsKind
  <2>4. IsUFS(i) /\ Shows(i, Rest(OriginAt(origin, k), p), ContentAt(members, image, origin, k))
    BY <1>1, ClearedUnmarked
  <2>5. IsUFS(mid) /\ Shows(mid, OriginAt(origin, k + 1), Unmarked(members, image, origin, k))
    BY <1>1, <1>5, <2>2, <2>3, <2>4, FreshUnmarked
  <2>6. QED
    BY <1>5, <2>5
<1>6. CASE m.do = "symlink"
  <2>1. PICK i \in Cleared(draft, p) : mid \in symlink(i, m.data, p)
    BY <1>6 DEF Brought
  <2>2. Free(i, p) /\ mid = New(i, p, "symlink", m.data)
    BY <2>1, SymlinkIsNew
  <2>3. Fresh(origin, k + 1, p) /\ \A d : IsKind("symlink", d)
    BY <1>3, <1>6 DEF Fresh, Kinds, IsKind
  <2>4. IsUFS(i) /\ Shows(i, Rest(OriginAt(origin, k), p), ContentAt(members, image, origin, k))
    BY <1>1, ClearedUnmarked
  <2>5. m.data \in {m.data, "corrupt"}
    OBVIOUS
  <2>6. IsUFS(mid) /\ Shows(mid, OriginAt(origin, k + 1), Unmarked(members, image, origin, k))
    BY <1>1, <1>6, <2>2, <2>3, <2>4, <2>5, FreshUnmarked
  <2>7. QED
    BY <1>6, <2>6
<1>7. CASE m.do = "hardlink"
  <2>1. PICK i \in Cleared(draft, p) : mid \in link(i, m.data, p)
    BY <1>7 DEF Brought
  <2>2. origin[k + 1][p] = origin[k][m.data]
    BY <1>3, <1>7
  <2>3. IsUFS(i) /\ Shows(i, Rest(OriginAt(origin, k), p), ContentAt(members, image, origin, k))
    BY <1>1, ClearedUnmarked
  <2>4. QED
    BY <1>1, <2>1, <2>2, <2>3, LinkUnmarked
<1>8. QED
  BY <1>1, <1>4, <1>5, <1>6, <1>7 DEF IsMember

(* A member that nextufs takes leaves what it should.                      *)
LEMMA AppliedPartial ==
  ASSUME NEW members, NEW image, NEW origin, NEW k \in Nat, NEW draft,
         Overlaid(members, image, origin, k, draft), NEW new \in Applied(draft, members[k + 1])
  PROVE  Partial(members, image, origin, k + 1, new)
<1>1. PICK mid \in Brought(draft, members[k + 1]) :
             new \in chmod(mid, members[k + 1].name, members[k + 1].attr)
  BY AppliedIsMarked
<1>2. /\ IsUFS(mid)
      /\ Shows(mid, OriginAt(origin, k + 1), Unmarked(members, image, origin, k))
      /\ members[k + 1].do = "hardlink" => origin[k][members[k + 1].data] # <<"none", 0>>
  BY BroughtUnmarked DEF Has
<1>3. QED
  BY <1>1, <1>2, MarkedPartial

LEMMA OverlayMatches ==
  ASSUME NEW j, NEW image, NEW n, n = Len(j.members), n \in Nat, NEW draft,
         Partial(j.members, image, Origin(j.members, image), n, draft)
  PROVE  Matches(View(draft), OverlayMeaning(j, image))
<1>. DEFINE origin == Origin(j.members, image)
            O == OriginAt(origin, n)
            C == ContentAt(j.members, image, origin, n)
            meant == OverlayMeaning(j, image)
<1>1. IsImage(draft) /\ Shows(draft, O, C)
  BY DEF Partial, IsUFS
<1>2. /\ DOMAIN meant = DOMAIN O
      /\ \A p \in DOMAIN O : meant[p] = [what |-> Content(j.members, image, origin, n, O[p]),
                                         twins |-> {q \in DOMAIN O : O[q] = O[p]}]
  BY DEF OverlayMeaning, ViewOf, OriginAt
<1>3. \A p \in DOMAIN O : C[p] = Content(j.members, image, origin, n, O[p])
  BY DEF OriginAt, ContentAt
<1>. HIDE DEF O, C, meant
<1>4. Means(O, C, meant)
  BY <1>2, <1>3 DEF Means
<1>5. Matches(View(draft), meant)
  BY <1>1, <1>4, ShownMatches
<1>6. QED
  BY <1>5 DEF meant

-----------------------------------------------------------------------------
(* One file is replaced.                                                   *)
SwapOrigin(j, image) == [Base(image) EXCEPT ![j.path] = <<"new", 0>>]

SwapWhat(j, image) ==
  [p \in DOMAIN image.name |->
     IF p = j.path THEN [kind |-> "file", data |-> j.data, attr |-> "0444"] ELSE node(image, p)]

LEMMA BaseShows ==
  ASSUME NEW image, IsUFS(image), NEW what, Agree([p \in DOMAIN image.name |-> node(image, p)], what, DOMAIN image.name)
  PROVE  Shows(image, Base(image), what)
<1>1. DOMAIN Base(image) = DOMAIN image.name
      /\ \A p \in DOMAIN image.name : Base(image)[p] = <<"base", image.name[p]>>
  BY DEF Base
<1>2. ASSUME NEW p \in DOMAIN image.name PROVE what[p] = node(image, p) /\ IsNode(what[p])
  <2>1. IsNode(node(image, p))
    BY ImageFacts DEF IsUFS
  <2>2. what[p] = node(image, p)
    BY DEF Agree
  <2>3. QED
    BY <2>1, <2>2
<1>3. \A p, q \in DOMAIN image.name : image.name[p] = image.name[q] <=> Base(image)[p] = Base(image)[q]
  BY <1>1
<1>4. QED
  BY <1>1, <1>2, <1>3 DEF Shows, Written

LEMMA SwapShows ==
  ASSUME NEW j, j.path \in Paths, NEW image, IsUFS(image), NEW t, t.name = j.path, t.data = j.data,
         t.attr = "0444", NEW new \in swapped(image, t)
  PROVE  /\ IsUFS(new) /\ Shows(new, SwapOrigin(j, image), SwapWhat(j, image))
         /\ j.path \in DOMAIN image.name
<1>. DEFINE p == j.path
            Old == [q \in DOMAIN image.name |-> node(image, q)]
            R == Rest(Base(image), p)
            O == SwapOrigin(j, image)
            W == SwapWhat(j, image)
            U == [q \in DOMAIN image.name |->
                    IF q = p THEN [kind |-> "file", data |-> j.data, attr |-> "new"] ELSE node(image, q)]
<1>1. PICK i, mid : /\ i \in unlink(image, p) /\ mid \in from_file(i, p, j.data)
                    /\ new \in chmod(mid, p, "0444")
  BY DEF swapped
<1>2. IsUFS(i) /\ i = Unnamed(image, p) /\ p \in DOMAIN image.name
  BY <1>1, UnlinkIsUFS
<1>3. PICK d \in {j.data, "corrupt"} : Free(i, p) /\ mid = New(i, p, "file", d)
  BY <1>1, FileIsNew
<1>4. IsUFS(mid)
  <2>1. IsKind("file", d)
    BY DEF Kinds, IsKind
  <2>2. QED
    BY <1>2, <1>3, <2>1, CreatedIsUFS
<1>5. Shows(i, R, Old)
  <2>1. Shows(image, Base(image), Old)
    BY BaseShows DEF Agree
  <2>2. DOMAIN R = DOMAIN Base(image) \ {p} /\ \A q \in DOMAIN R : R[q] = Base(image)[q]
    BY DEF Rest
  <2>. HIDE DEF R, Old
  <2>3. QED
    BY <1>2, <2>1, <2>2, ShowsTaken DEF IsUFS
<1>6. /\ DOMAIN R = DOMAIN image.name \ {p}
      /\ \A q \in DOMAIN R : R[q] = <<"base", image.name[q]>>
      /\ DOMAIN O = DOMAIN image.name /\ O[p] = <<"new", 0>>
      /\ \A q \in DOMAIN R : O[q] = R[q]
  BY <1>2 DEF Rest, Base, SwapOrigin
<1>7. \A q \in DOMAIN R : O[p] # R[q]
  BY <1>6
<1>8. BringsNode(R, Old, O, U, p, "file", d)
  <2>1. Grown(R, O, p)
    BY <1>2, <1>6 DEF Grown
  <2>2. Agree(Old, U, DOMAIN R)
    BY <1>6 DEF Agree
  <2>3. IsNode(U[p]) /\ [kind |-> "file", data |-> d, attr |-> "new"] \in Written(U[p])
    BY <1>2 DEF IsNode, Written, Kinds, IsKind
  <2>5. O[p][1] # "base"
    BY <1>6
  <2>. HIDE DEF R, O, U, Old
  <2>4. QED
    BY <1>7, <2>1, <2>2, <2>3, <2>5 DEF BringsNode, Kinds, IsKind
<1>9. Shows(mid, O, U)
  BY <1>2, <1>3, <1>5, <1>8, ShowsNew DEF IsUFS
<1>10. \A q \in DOMAIN O : W[q] = IF O[q] = O[p] THEN Marked(U[q], "0444") ELSE U[q]
  <2>1. \A q \in DOMAIN O : O[q] = O[p] <=> q = p
    BY <1>2, <1>6, <1>7
  <2>2. \A q \in DOMAIN O : W[q] = IF q = p THEN Marked(U[q], "0444") ELSE U[q]
    BY <1>6 DEF SwapWhat, Marked
  <2>3. QED
    BY <2>1, <2>2
<1>. HIDE DEF O, W, U, Old, R
<1>11. Shows(new, O, W)
  BY <1>1, <1>4, <1>9, <1>10, ShowsChmod DEF IsUFS
<1>12. IsUFS(new)
  BY <1>1, <1>4, ChmodIsUFS
<1>13. QED
  BY <1>2, <1>11, <1>12 DEF O, W

LEMMA SwapMatches ==
  ASSUME NEW j, NEW image, IsUFS(image), j.path \in DOMAIN image.name, NEW draft, IsUFS(draft),
         Shows(draft, SwapOrigin(j, image), SwapWhat(j, image))
  PROVE  Matches(View(draft), ReplaceFileMeaning(j, image))
<1>. DEFINE O == SwapOrigin(j, image)
            W == SwapWhat(j, image)
            meant == ReplaceFileMeaning(j, image)
            what(o) == IF o[1] = "base" THEN image.inode[o[2]]
                       ELSE [kind |-> "file", data |-> j.data, attr |-> "0444"]
<1>1. /\ DOMAIN meant = DOMAIN O
      /\ \A p \in DOMAIN O : meant[p] = [what |-> what(O[p]), twins |-> {q \in DOMAIN O : O[q] = O[p]}]
  BY DEF ReplaceFileMeaning, ViewOf, SwapOrigin
<1>2. /\ DOMAIN O = DOMAIN image.name
      /\ \A p \in DOMAIN O : O[p] = IF p = j.path THEN <<"new", 0>> ELSE <<"base", image.name[p]>>
  BY DEF SwapOrigin, Base
<1>3. ASSUME NEW p \in DOMAIN O PROVE what(O[p]) = W[p]
  <2>1. CASE p = j.path
    <3>1. O[p] = <<"new", 0>>
      BY <1>2, <2>1
    <3>2. O[p][1] = "new"
      BY <3>1
    <3>3. W[p] = [kind |-> "file", data |-> j.data, attr |-> "0444"]
      BY <1>2, <2>1 DEF SwapWhat
    <3>. HIDE DEF O, W
    <3>4. QED
      BY <3>2, <3>3
  <2>2. CASE p # j.path
    <3>1. O[p] = <<"base", image.name[p]>>
      BY <1>2, <2>2
    <3>2. O[p][1] = "base" /\ O[p][2] = image.name[p]
      BY <3>1
    <3>3. W[p] = image.inode[image.name[p]]
      BY <1>2, <2>2 DEF SwapWhat, node
    <3>. HIDE DEF O, W
    <3>4. QED
      BY <3>2, <3>3
  <2>3. QED
    BY <2>1, <2>2
<1>. HIDE DEF O, W, meant, what
<1>4. Means(O, W, meant)
  BY <1>1, <1>3 DEF Means
<1>5. IsImage(draft) /\ Shows(draft, O, W)
  BY DEF IsUFS, O, W
<1>6. Matches(View(draft), meant)
  BY <1>4, <1>5, ShownMatches
<1>7. QED
  BY <1>6 DEF meant

-----------------------------------------------------------------------------
(* A tree is replaced or inserted.  What is kept of the image, the new     *)
(* root and the nodes that are in already are apart.                       *)
TreeWhat(j, image, source, kept, fresh, nodes) ==
  LET origin == TreeOrigin(j, image, kept, fresh, nodes)
  IN [p \in DOMAIN origin |-> TreeContent(image, source, origin[p])]

Apart(j, image, source, kept, fresh, nodes) ==
  /\ IsTarget(j) /\ nodes \subseteq Below(j.from) \cap DOMAIN source.name
  /\ kept \subseteq DOMAIN image.name /\ fresh \subseteq {j.root}
  /\ kept \cap fresh = {} /\ (kept \cup fresh) \cap Placed(j, nodes) = {}

NewRoot == [kind |-> "directory", data |-> "none", attr |-> "new"]

TreeRows(j, image, source, kept, fresh, nodes, origin, what) ==
  /\ DOMAIN origin = kept \cup fresh \cup Placed(j, nodes)
  /\ \A p \in kept : origin[p] = <<"base", image.name[p]>> /\ what[p] = node(image, p)
  /\ \A p \in fresh : origin[p] = <<"root", 0>> /\ what[p] = NewRoot
  /\ \A q \in nodes : origin[j.target[q]] = <<"source", q>> /\ what[j.target[q]] = node(source, q)

LEMMA TreeRowsAre ==
  ASSUME NEW j, NEW image, NEW source, NEW kept, NEW fresh, NEW nodes,
         Apart(j, image, source, kept, fresh, nodes)
  PROVE  TreeRows(j, image, source, kept, fresh, nodes,
                  TreeOrigin(j, image, kept, fresh, nodes),
                  TreeWhat(j, image, source, kept, fresh, nodes))
<1>. DEFINE O == TreeOrigin(j, image, kept, fresh, nodes)
            W == TreeWhat(j, image, source, kept, fresh, nodes)
            P == Placed(j, nodes)
<1>1. /\ DOMAIN O = kept \cup fresh \cup P
      /\ \A p \in DOMAIN O : O[p] = IF p \in P THEN <<"source", CHOOSE q \in nodes : j.target[q] = p>>
                                    ELSE IF p \in fresh THEN <<"root", 0>>
                                    ELSE <<"base", image.name[p]>>
  BY DEF TreeOrigin
<1>2. \A p \in DOMAIN O : W[p] = TreeContent(image, source, O[p])
  BY DEF TreeWhat
<1>3. /\ kept \cap fresh = {} /\ (kept \cup fresh) \cap P = {}
      /\ IsTarget(j) /\ nodes \subseteq Below(j.from)
  BY DEF Apart
<1>4. ASSUME NEW p \in kept PROVE O[p] = <<"base", image.name[p]>> /\ W[p] = node(image, p)
  <2>1. p \in DOMAIN O /\ p \notin P /\ p \notin fresh
    BY <1>1, <1>3
  <2>2. O[p] = <<"base", image.name[p]>>
    BY <1>1, <2>1
  <2>3. O[p][1] = "base" /\ O[p][2] = image.name[p]
    BY <2>2
  <2>. HIDE DEF O, W, P
  <2>4. W[p] = image.inode[image.name[p]]
    BY <1>2, <2>1, <2>3 DEF TreeContent
  <2>5. QED
    BY <2>2, <2>4 DEF node
<1>5. ASSUME NEW p \in fresh PROVE O[p] = <<"root", 0>> /\ W[p] = NewRoot
  <2>1. p \in DOMAIN O /\ p \notin P
    BY <1>1, <1>3
  <2>2. O[p] = <<"root", 0>>
    BY <1>1, <2>1
  <2>3. O[p][1] = "root"
    BY <2>2
  <2>. HIDE DEF O, W, P
  <2>4. W[p] = NewRoot
    BY <1>2, <2>1, <2>3 DEF TreeContent, NewRoot
  <2>5. QED
    BY <2>2, <2>4
<1>6. ASSUME NEW q \in nodes
      PROVE  O[j.target[q]] = <<"source", q>> /\ W[j.target[q]] = node(source, q)
  <2>. DEFINE p == j.target[q]
  <2>1. p \in P
    BY DEF Placed
  <2>2. p \in DOMAIN O
    BY <1>1, <2>1
  <2>3. (CHOOSE r \in nodes : j.target[r] = p) = q
    BY <1>3 DEF IsTarget
  <2>. HIDE DEF p
  <2>4. O[p] = <<"source", q>>
    BY <1>1, <2>1, <2>2, <2>3
  <2>5. O[p][1] = "source" /\ O[p][2] = q
    BY <2>4
  <2>. HIDE DEF O, W, P
  <2>6. W[p] = node(source, q)
    BY <1>2, <2>2, <2>5 DEF TreeContent
  <2>7. QED
    BY <2>4, <2>6 DEF p
<1>7. QED
  BY <1>1, <1>4, <1>5, <1>6 DEF TreeRows

(* The images there may be when that much is done.                         *)
Planted(j, image, source, kept, fresh, nodes, draft) ==
  /\ Apart(j, image, source, kept, fresh, nodes)
  /\ IsUFS(image) /\ IsUFS(source) /\ IsUFS(draft)
  /\ Shows(draft, TreeOrigin(j, image, kept, fresh, nodes),
           TreeWhat(j, image, source, kept, fresh, nodes))

LEMMA PlantedFacts ==
  ASSUME NEW j, NEW image, NEW source, NEW kept, NEW fresh, NEW nodes, NEW draft,
         Planted(j, image, source, kept, fresh, nodes, draft)
  PROVE  DOMAIN draft.name = kept \cup fresh \cup Placed(j, nodes)
<1>1. TreeRows(j, image, source, kept, fresh, nodes, TreeOrigin(j, image, kept, fresh, nodes),
               TreeWhat(j, image, source, kept, fresh, nodes))
  BY TreeRowsAre DEF Planted
<1>2. QED
  BY <1>1 DEF TreeRows, Planted, Shows

LEMMA PlantedFirst ==
  ASSUME NEW j, IsTarget(j), NEW image, IsUFS(image), NEW source, IsUFS(source)
  PROVE  Planted(j, image, source, DOMAIN image.name, {}, {}, image)
<1>. DEFINE O == TreeOrigin(j, image, DOMAIN image.name, {}, {})
            W == TreeWhat(j, image, source, DOMAIN image.name, {}, {})
<1>1. Apart(j, image, source, DOMAIN image.name, {}, {})
  BY DEF Apart, Placed
<1>2. TreeRows(j, image, source, DOMAIN image.name, {}, {}, O, W)
  BY <1>1, TreeRowsAre
<1>3. Placed(j, {}) = {}
  BY DEF Placed
<1>. HIDE DEF O, W
<1>4. DOMAIN O = DOMAIN image.name
      /\ \A p \in DOMAIN O : O[p] = <<"base", image.name[p]>> /\ W[p] = node(image, p)
  BY <1>2, <1>3 DEF TreeRows
<1>5. \A p, q \in DOMAIN O : image.name[p] = image.name[q] <=> O[p] = O[q]
  BY <1>4
<1>6. \A p \in DOMAIN image.name : IsNode(node(image, p))
  BY ImageFacts DEF IsUFS
<1>7. Shows(image, O, W)
  BY <1>4, <1>5, <1>6 DEF Shows, Written
<1>8. QED
  BY <1>1, <1>7 DEF Planted, O, W

(* A node of the old tree is gone.                                         *)
LEMMA PlantedRemoves ==
  ASSUME NEW j, NEW image, NEW source, NEW kept, NEW draft,
         Planted(j, image, source, kept, {}, {}, draft),
         NEW p, NEW new \in rmdir(draft, p) \cup unlink(draft, p)
  PROVE  Planted(j, image, source, kept \ {p}, {}, {}, new)
<1>. DEFINE O == TreeOrigin(j, image, kept, {}, {})
            W == TreeWhat(j, image, source, kept, {}, {})
            N == TreeOrigin(j, image, kept \ {p}, {}, {})
            V == TreeWhat(j, image, source, kept \ {p}, {}, {})
<1>1. Apart(j, image, source, kept, {}, {}) /\ Apart(j, image, source, kept \ {p}, {}, {})
  BY DEF Planted, Apart
<1>2. TreeRows(j, image, source, kept, {}, {}, O, W)
  BY <1>1, TreeRowsAre
<1>3. TreeRows(j, image, source, kept \ {p}, {}, {}, N, V)
  BY <1>1, TreeRowsAre
<1>4. Placed(j, {}) = {}
  BY DEF Placed
<1>5. IsUFS(draft) /\ Shows(draft, O, W)
  BY DEF Planted
<1>6. IsUFS(new) /\ new = Unnamed(draft, p)
  <2>1. CASE new \in rmdir(draft, p)
    BY <1>5, <2>1, RmdirIsUFS
  <2>2. CASE new \in unlink(draft, p)
    BY <1>5, <2>2, UnlinkIsUFS
  <2>3. QED
    BY <2>1, <2>2
<1>. HIDE DEF O, W, N, V
<1>7. /\ DOMAIN N = DOMAIN O \ {p} /\ \A q \in DOMAIN N : N[q] = O[q]
      /\ \A q \in DOMAIN N : V[q] = W[q]
  BY <1>2, <1>3, <1>4 DEF TreeRows
<1>8. Shows(new, N, W)
  BY <1>5, <1>6, <1>7, ShowsTaken DEF IsUFS
<1>9. Shows(new, N, V)
  BY <1>7, <1>8 DEF Shows
<1>10. QED
  BY <1>1, <1>6, <1>9 DEF Planted, N, V

(* The new root.                                                           *)
LEMMA PlantedRoots ==
  ASSUME NEW j, NEW image, NEW source, NEW kept, NEW draft, j.root \in Paths,
         Planted(j, image, source, kept, {}, {}, draft), NEW new \in mkdir(draft, j.root)
  PROVE  Planted(j, image, source, kept, {j.root}, {}, new) /\ j.root \notin kept
<1>. DEFINE p == j.root
            O == TreeOrigin(j, image, kept, {}, {})
            W == TreeWhat(j, image, source, kept, {}, {})
            N == TreeOrigin(j, image, kept, {p}, {})
            V == TreeWhat(j, image, source, kept, {p}, {})
<1>1. Free(draft, p) /\ new = New(draft, p, "directory", "none")
  BY MkdirIsNew
<1>2. IsUFS(draft) /\ Shows(draft, O, W)
  BY DEF Planted
<1>3. p \notin kept
  <2>1. DOMAIN draft.name = kept \cup {} \cup Placed(j, {})
    BY PlantedFacts
  <2>2. QED
    BY <1>1, <2>1 DEF Free, Exists
<1>4. Apart(j, image, source, kept, {}, {}) /\ Apart(j, image, source, kept, {p}, {})
  BY <1>3 DEF Planted, Apart, Placed
<1>5. TreeRows(j, image, source, kept, {}, {}, O, W)
  BY <1>4, TreeRowsAre
<1>6. TreeRows(j, image, source, kept, {p}, {}, N, V)
  BY <1>4, TreeRowsAre
<1>7. Placed(j, {}) = {} /\ IsKind("directory", "none")
  BY DEF Placed, Kinds, IsKind
<1>8. IsUFS(new)
  BY <1>1, <1>2, <1>7, CreatedIsUFS
<1>. HIDE DEF p, O, W, N, V
<1>9. BringsNode(O, W, N, V, p, "directory", "none")
  <2>1. /\ DOMAIN O = kept /\ DOMAIN N = kept \cup {p} /\ N[p] = <<"root", 0>> /\ V[p] = NewRoot
        /\ \A q \in kept : /\ O[q] = <<"base", image.name[q]>> /\ N[q] = <<"base", image.name[q]>>
                           /\ V[q] = W[q]
    BY <1>5, <1>6, <1>7 DEF TreeRows
  <2>2. Grown(O, N, p)
    BY <1>3, <2>1 DEF Grown
  <2>3. \A q \in DOMAIN O : N[p] # O[q]
    BY <2>1
  <2>4. Agree(W, V, DOMAIN O)
    BY <2>1 DEF Agree
  <2>5. IsNode(V[p]) /\ [kind |-> "directory", data |-> "none", attr |-> "new"] \in Written(V[p])
    BY <2>1 DEF NewRoot, IsNode, Written, Kinds, IsKind
  <2>6. p \in Paths /\ N[p][1] # "base"
    BY <2>1 DEF p
  <2>7. QED
    BY <1>7, <2>2, <2>3, <2>4, <2>5, <2>6 DEF BringsNode
<1>10. Shows(new, N, V)
  BY <1>1, <1>2, <1>9, ShowsNew DEF IsUFS
<1>11. QED
  BY <1>3, <1>4, <1>8, <1>10 DEF Planted, N, V, p

(* A node of the source is put in.                                         *)
LEMMA InsertedIsNew ==
  ASSUME NEW image, NEW source, NEW p, NEW q, IsNode(node(source, q)),
         NEW new \in inserted(image, source, p, q)
  PROVE  \E d, mid : /\ d \in {node(source, q).data, "corrupt"} /\ IsKind(node(source, q).kind, d)
                     /\ Free(image, p) /\ mid = New(image, p, node(source, q).kind, d)
                     /\ new \in chmod(mid, p, node(source, q).attr)
<1>. DEFINE n == node(source, q)
<1>1. n.kind \in {"directory", "file", "symlink"} /\ (n.kind = "directory" => n.data = "none")
  BY DEF IsNode, IsKind, Kinds
<1>. HIDE DEF n
<1>2. CASE n.kind = "directory"
  <2>1. PICK mid \in mkdir(image, p) : new \in chmod(mid, p, n.attr)
    BY <1>2 DEF inserted, n
  <2>2. Free(image, p) /\ mid = New(image, p, "directory", "none")
    BY <2>1, MkdirIsNew
  <2>3. IsKind("directory", "none")
    BY DEF IsKind, Kinds
  <2>4. QED
    BY <1>1, <1>2, <2>1, <2>2, <2>3 DEF n
<1>3. CASE n.kind = "file"
  <2>1. PICK mid \in from_file(image, p, n.data) : new \in chmod(mid, p, n.attr)
    BY <1>3 DEF inserted, n
  <2>2. PICK d \in {n.data, "corrupt"} : Free(image, p) /\ mid = New(image, p, "file", d)
    BY <2>1, FileIsNew
  <2>3. IsKind("file", d)
    BY DEF IsKind, Kinds
  <2>4. QED
    BY <1>3, <2>1, <2>2, <2>3 DEF n
<1>4. CASE n.kind = "symlink"
  BY <1>4 DEF inserted, n
<1>5. QED
  BY <1>1, <1>2, <1>3, <1>4

LEMMA PlantedInserts ==
  ASSUME NEW j, NEW image, NEW source, NEW kept, NEW fresh, NEW nodes, NEW draft,
         Planted(j, image, source, kept, fresh, nodes, draft),
         NEW q \in Below(j.from) \cap DOMAIN source.name, q \notin nodes,
         NEW new \in inserted(draft, source, j.target[q], q)
  PROVE  Planted(j, image, source, kept, fresh, nodes \cup {q}, new)
<1>. DEFINE p == j.target[q]
            n == node(source, q)
            more == nodes \cup {q}
            O == TreeOrigin(j, image, kept, fresh, nodes)
            W == TreeWhat(j, image, source, kept, fresh, nodes)
            N == TreeOrigin(j, image, kept, fresh, more)
            V == TreeWhat(j, image, source, kept, fresh, more)
            U == [r \in DOMAIN N |-> IF r = p THEN Marked(n, "new") ELSE V[r]]
<1>1. /\ Apart(j, image, source, kept, fresh, nodes) /\ IsUFS(source) /\ IsUFS(draft)
      /\ Shows(draft, O, W) /\ IsTarget(j)
  BY DEF Planted, Apart
<1>2. IsNode(n) /\ p \in Paths
  <2>1. IsNode(n)
    BY <1>1, ImageFacts DEF IsUFS
  <2>2. QED
    BY <1>1, <2>1 DEF IsTarget
<1>3. PICK d, mid : /\ d \in {n.data, "corrupt"} /\ IsKind(n.kind, d)
                    /\ Free(draft, p) /\ mid = New(draft, p, n.kind, d)
                    /\ new \in chmod(mid, p, n.attr)
  BY <1>2, InsertedIsNew
<1>4. DOMAIN draft.name = kept \cup fresh \cup Placed(j, nodes)
  BY PlantedFacts
<1>5. p \notin kept \cup fresh \cup Placed(j, nodes)
  BY <1>3, <1>4 DEF Free, Exists
<1>6. Placed(j, more) = Placed(j, nodes) \cup {p}
  BY DEF Placed
<1>7. Apart(j, image, source, kept, fresh, more)
  BY <1>1, <1>5, <1>6 DEF Apart
<1>8. TreeRows(j, image, source, kept, fresh, nodes, O, W)
  BY <1>1, TreeRowsAre
<1>9. TreeRows(j, image, source, kept, fresh, more, N, V)
  BY <1>7, TreeRowsAre
<1>10. IsUFS(mid) /\ IsUFS(new)
  <2>1. IsUFS(mid)
    BY <1>1, <1>2, <1>3, CreatedIsUFS
  <2>2. QED
    BY <1>3, <2>1, ChmodIsUFS
<1>11. /\ DOMAIN O = kept \cup fresh \cup Placed(j, nodes) /\ DOMAIN N = DOMAIN O \cup {p}
       /\ p \notin DOMAIN O /\ N[p] = <<"source", q>> /\ V[p] = n
  <2>. HIDE DEF O, W, N, V
  <2>1. q \in more
    OBVIOUS
  <2>2. QED
    BY <1>5, <1>6, <1>8, <1>9, <2>1 DEF TreeRows
<1>12. \A r \in DOMAIN O : N[r] = O[r] /\ V[r] = W[r] /\ N[r] # <<"source", q>>
  <2>. HIDE DEF O, W, N, V
  <2>1. ASSUME NEW r \in kept PROVE N[r] = O[r] /\ V[r] = W[r] /\ N[r] # <<"source", q>>
    BY <1>8, <1>9 DEF TreeRows
  <2>2. ASSUME NEW r \in fresh PROVE N[r] = O[r] /\ V[r] = W[r] /\ N[r] # <<"source", q>>
    BY <1>8, <1>9 DEF TreeRows
  <2>3. ASSUME NEW s \in nodes
        PROVE  /\ N[j.target[s]] = O[j.target[s]] /\ V[j.target[s]] = W[j.target[s]]
               /\ N[j.target[s]] # <<"source", q>>
    <3>. DEFINE t == j.target[s]
    <3>1. s \in more /\ s # q
      OBVIOUS
    <3>. HIDE DEF more
    <3>2. O[t] = <<"source", s>> /\ W[t] = node(source, s)
      BY <1>8 DEF TreeRows
    <3>3. N[t] = <<"source", s>> /\ V[t] = node(source, s)
      BY <1>9, <3>1 DEF TreeRows
    <3>. HIDE DEF t
    <3>4. N[t] = O[t] /\ V[t] = W[t] /\ N[t] # <<"source", q>>
      BY <3>1, <3>2, <3>3
    <3>5. QED
      BY <3>4 DEF t
  <2>4. QED
    BY <1>11, <2>1, <2>2, <2>3 DEF Placed
<1>13. U[p] = Marked(n, "new") /\ \A r \in DOMAIN O : r # p /\ U[r] = V[r]
  BY <1>11
<1>. HIDE DEF O, W, N, V, U
<1>14. BringsNode(O, W, N, U, p, n.kind, d)
  <2>1. Grown(O, N, p)
    BY <1>11, <1>12 DEF Grown
  <2>2. \A r \in DOMAIN O : N[p] # O[r]
    BY <1>11, <1>12
  <2>3. Agree(W, U, DOMAIN O)
    BY <1>12, <1>13 DEF Agree
  <2>4. /\ IsNode(U[p])
        /\ [kind |-> n.kind, data |-> d, attr |-> "new"] \in Written(U[p])
    <3>. HIDE DEF n
    <3>1. IsNode(Marked(n, "new"))
      BY <1>2 DEF IsNode, Marked
    <3>2. [kind |-> n.kind, data |-> d, attr |-> "new"] \in Written(Marked(n, "new"))
      BY <1>3 DEF Written, Marked
    <3>3. QED
      BY <1>13, <3>1, <3>2
  <2>5. N[p][1] # "base"
    BY <1>11
  <2>6. QED
    BY <1>2, <1>3, <2>1, <2>2, <2>3, <2>4, <2>5 DEF BringsNode
<1>15. Shows(mid, N, U)
  BY <1>1, <1>3, <1>14, ShowsNew DEF IsUFS
<1>16. \A r \in DOMAIN N : V[r] = IF N[r] = N[p] THEN Marked(U[r], n.attr) ELSE U[r]
  <2>1. Marked(Marked(n, "new"), n.attr) = n
    BY <1>2 DEF Marked, IsNode
  <2>2. \A r \in DOMAIN O : N[r] # N[p]
    BY <1>11, <1>12
  <2>3. QED
    BY <1>11, <1>13, <2>1, <2>2
<1>17. Shows(new, N, V)
  BY <1>3, <1>10, <1>15, <1>16, ShowsChmod DEF IsUFS
<1>18. QED
  BY <1>7, <1>10, <1>17 DEF Planted, N, V

-----------------------------------------------------------------------------
(* Below a path is what comes later in Order; nothing is below a path that *)
(* an image does not have; a target is below its root.                     *)
LEMMA NothingBelow ==
  ASSUME NEW image, IsUFS(image), NEW root \in Paths, root \notin DOMAIN image.name
  PROVE  DOMAIN image.name \cap Below(root) = {}
<1>. DEFINE Good == {i \in 0..Len(Order) : i > 0 => Order[i] \notin DOMAIN image.name \cap Below(root)}
<1>1. ASSUME NEW i \in 0..Len(Order), \A k \in 0..(i - 1) : k \in Good
      PROVE  i \in Good
  <2>1. CASE i = 0
    BY <2>1
  <2>2. CASE i > 0
    <3>. DEFINE p == Order[i]
    <3>1. p \in Paths /\ i \in 1..Len(Order)
      BY <2>2 DEF Paths
    <3>2. SUFFICES ASSUME p \in DOMAIN image.name, p \in Below(root) PROVE FALSE
      OBVIOUS
    <3>3. Parent[p] = root \/ Parent[p] \in Below(root)
      BY <3>1, <3>2, BelowFacts
    <3>4. Parent[p] # "/"
      BY <3>3, BelowFacts, PathAssumption
    <3>5. Parent[p] \in DOMAIN image.name
      BY <3>2, <3>4 DEF IsUFS, IsTree, IsDirectory, Exists
    <3>6. Parent[p] \in Below(root)
      BY <3>3, <3>5
    <3>7. PICK k \in 1..(i - 1) : Order[k] = Parent[p]
      BY <3>1, <3>4, PathAssumption
    <3>8. k \in Good /\ k > 0
      BY <1>1, <3>7
    <3>9. QED
      BY <3>5, <3>6, <3>7, <3>8
  <2>3. QED
    BY <2>1, <2>2
<1>2. \A i \in 0..Len(Order) : i \in Good
  <2>. HIDE DEF Good
  <2>1. \A i \in 0..Len(Order) : (\A k \in 0..(i - 1) : k \in Good) => i \in Good
    BY <1>1
  <2>2. QED
    BY <2>1, Induction, OrderFacts
<1>3. \A p \in Paths : p \notin DOMAIN image.name \cap Below(root)
  BY <1>2, OrderFacts
<1>4. QED
  BY <1>3, BelowFacts

LEMMA BelowIsLater ==
  ASSUME NEW r \in 1..Len(Order), NEW i \in 1..Len(Order), Order[i] \in Below(Order[r])
  PROVE  r < i
<1>. DEFINE root == Order[r]
            Good == {n \in 0..Len(Order) : n > 0 /\ Order[n] \in Below(root) => r < n}
<1>1. ASSUME NEW n \in 0..Len(Order), \A k \in 0..(n - 1) : k \in Good
      PROVE  n \in Good
  <2>1. CASE n = 0
    BY <2>1
  <2>2. CASE n > 0
    <3>. DEFINE p == Order[n]
    <3>1. p \in Paths /\ n \in 1..Len(Order)
      BY <2>2 DEF Paths
    <3>2. SUFFICES ASSUME p \in Below(root) PROVE r < n
      OBVIOUS
    <3>3. Parent[p] = root \/ Parent[p] \in Below(root)
      BY <3>1, <3>2, BelowFacts
    <3>4. Parent[p] # "/"
      BY <3>3, BelowFacts, PathAssumption, OrderFacts
    <3>5. PICK k \in 1..(n - 1) : Order[k] = Parent[p]
      BY <3>1, <3>4, PathAssumption
    <3>6. CASE Parent[p] = root
      <4>1. k = r
        BY <3>1, <3>5, <3>6, PathAssumption
      <4>2. QED
        BY <3>5, <4>1
    <3>7. CASE Parent[p] \in Below(root)
      <4>1. k \in Good
        BY <1>1, <3>5
      <4>2. r < k
        BY <3>5, <3>7, <4>1
      <4>3. QED
        BY <3>5, <4>2
    <3>8. QED
      BY <3>3, <3>6, <3>7
  <2>3. QED
    BY <2>1, <2>2
<1>2. \A n \in 0..Len(Order) : n \in Good
  <2>. HIDE DEF Good
  <2>1. \A n \in 0..Len(Order) : (\A k \in 0..(n - 1) : k \in Good) => n \in Good
    BY <1>1
  <2>2. QED
    BY <2>1, Induction, OrderFacts
<1>3. i \in Good
  BY <1>2
<1>4. QED
  BY <1>3

LEMMA NotBelowItself ==
  ASSUME NEW root \in Paths
  PROVE  root \notin Below(root)
<1>1. PICK r \in 1..Len(Order) : root = Order[r]
  BY OrderFacts
<1>2. QED
  BY <1>1, BelowIsLater

LEMMA TargetIsBelow ==
  ASSUME NEW j, IsTarget(j), j.root \in Paths, j.from \in Paths
  PROVE  \A p \in Below(j.from) : j.target[p] \in Below(j.root)
<1>. DEFINE Good == {n \in 0..Len(Order) :
                       n > 0 /\ Order[n] \in Below(j.from) => j.target[Order[n]] \in Below(j.root)}
<1>1. ASSUME NEW n \in 0..Len(Order), \A k \in 0..(n - 1) : k \in Good
      PROVE  n \in Good
  <2>1. CASE n = 0
    BY <2>1
  <2>2. CASE n > 0
    <3>. DEFINE p == Order[n]
                t == j.target[p]
    <3>1. p \in Paths /\ n \in 1..Len(Order)
      BY <2>2 DEF Paths
    <3>2. SUFFICES ASSUME p \in Below(j.from) PROVE t \in Below(j.root)
      OBVIOUS
    <3>3. Parent[p] = j.from \/ Parent[p] \in Below(j.from)
      BY <3>1, <3>2, BelowFacts
    <3>4. Parent[p] # "/"
      BY <3>3, BelowFacts, PathAssumption
    <3>5. /\ t \in Paths
          /\ Parent[t] = IF Parent[p] = j.from THEN j.root ELSE j.target[Parent[p]]
      BY <3>2 DEF IsTarget
    <3>6. CASE Parent[p] = j.from
      BY <3>5, <3>6, BelowFacts
    <3>7. CASE Parent[p] # j.from
      <4>1. PICK k \in 1..(n - 1) : Order[k] = Parent[p]
        BY <3>1, <3>4, PathAssumption
      <4>2. k \in Good
        BY <1>1, <4>1
      <4>3. j.target[Parent[p]] \in Below(j.root)
        BY <3>3, <3>7, <4>1, <4>2
      <4>4. QED
        BY <3>5, <3>7, <4>3, BelowFacts
    <3>8. QED
      BY <3>6, <3>7
  <2>3. QED
    BY <2>1, <2>2
<1>2. \A n \in 0..Len(Order) : n \in Good
  <2>. HIDE DEF Good
  <2>1. \A n \in 0..Len(Order) : (\A k \in 0..(n - 1) : k \in Good) => n \in Good
    BY <1>1
  <2>2. QED
    BY <2>1, Induction, OrderFacts
<1>3. TAKE p \in Below(j.from)
<1>4. p \in Paths
  BY BelowFacts
<1>5. PICK n \in 1..Len(Order) : p = Order[n]
  BY <1>4, OrderFacts
<1>6. QED
  BY <1>2, <1>5

LEMMA InventoryFacts ==
  ASSUME NEW image, NEW root, NEW list, list = tree_inventory(image, root)
  PROVE  /\ list \in Seq(Paths) /\ Len(list) \in Nat /\ Rising(list)
         /\ {list[i] : i \in 1..Len(list)} = Below(root) \cap DOMAIN image.name
         /\ \A a, b \in 1..Len(list) : list[a] = list[b] => a = b
<1>. DEFINE S == {p \in Below(root) : Exists(image, p)}
<1>1. list = Listed(S) /\ S = Below(root) \cap DOMAIN image.name /\ S \subseteq Paths
  BY BelowFacts DEF tree_inventory, Exists
<1>. HIDE DEF S
<1>2. /\ Listed(S) \in Seq(Paths) /\ Rising(Listed(S))
      /\ {Listed(S)[i] : i \in 1..Len(Listed(S))} = S \cap Paths
      /\ \A a, b \in 1..Len(Listed(S)) : Listed(S)[a] = Listed(S)[b] => a = b
  BY ListedFacts
<1>3. Len(list) \in Nat
  BY <1>1, <1>2, LenProperties
<1>4. list \in Seq(Paths) /\ Rising(list)
  BY <1>1, <1>2
<1>5. {list[i] : i \in 1..Len(list)} = Below(root) \cap DOMAIN image.name
  <2>1. S \cap Paths = Below(root) \cap DOMAIN image.name
    BY <1>1
  <2>2. {Listed(S)[i] : i \in 1..Len(Listed(S))} = Below(root) \cap DOMAIN image.name
    BY <1>2, <2>1
  <2>3. QED
    BY ONLY <1>1, <2>2, Zenon
<1>6. \A a, b \in 1..Len(list) : list[a] = list[b] => a = b
  BY <1>1, <1>2
<1>7. QED
  BY <1>3, <1>4, <1>5, <1>6

(* What an image that is done has from the one that was copied is right if *)
(* it was right there.                                                     *)
KeptRight(image, origin, draft) ==
  \A p \in DOMAIN draft.name :
    node(draft, p).data = "corrupt" /\ origin[p][1] = "base" => image.inode[origin[p][2]].data = "corrupt"

BaseData(image, origin, what) ==
  \A p \in DOMAIN origin : origin[p][1] = "base" => what[p].data = image.inode[origin[p][2]].data

LEMMA BaseIsRight ==
  ASSUME NEW image, NEW draft, NEW origin, NEW what, Shows(draft, origin, what),
         BaseData(image, origin, what), NEW from, Agree(origin, from, DOMAIN origin)
  PROVE  KeptRight(image, from, draft)
BY DEF Shows, KeptRight, BaseData, Agree

TreeFrom(j, image, source) ==
  LET kept == DOMAIN image.name \ Below(j.root)
  IN TreeOrigin(j, image, kept, {j.root} \ kept, Below(j.from) \cap DOMAIN source.name)

LEMMA TreeMatches ==
  ASSUME NEW j, NEW image, NEW source, NEW kept, NEW fresh, NEW nodes, NEW draft,
         Planted(j, image, source, kept, fresh, nodes, draft),
         kept = DOMAIN image.name \ Below(j.root), fresh = {j.root} \ kept,
         nodes = Below(j.from) \cap DOMAIN source.name
  PROVE  Matches(View(draft), TreeMeaning(j, image, source)) /\ KeptRight(image, TreeFrom(j, image, source), draft)
<1>. DEFINE O == TreeOrigin(j, image, kept, fresh, nodes)
            W == TreeWhat(j, image, source, kept, fresh, nodes)
            meant == TreeMeaning(j, image, source)
<1>1. IsImage(draft) /\ Shows(draft, O, W)
  BY DEF Planted, IsUFS
<1>2. /\ DOMAIN meant = DOMAIN O
      /\ \A p \in DOMAIN O : meant[p] = [what |-> TreeContent(image, source, O[p]),
                                         twins |-> {q \in DOMAIN O : O[q] = O[p]}]
  BY DEF TreeMeaning, ViewOf
<1>3. \A p \in DOMAIN O : W[p] = TreeContent(image, source, O[p])
  BY DEF TreeWhat
<1>4. TreeFrom(j, image, source) = O
  BY DEF TreeFrom
<1>. HIDE DEF O, W, meant
<1>5. Means(O, W, meant)
  BY <1>2, <1>3 DEF Means
<1>6. Matches(View(draft), meant)
  BY <1>1, <1>5, ShownMatches
<1>7. BaseData(image, O, W) /\ Agree(O, O, DOMAIN O)
  BY <1>3 DEF TreeContent, BaseData, Agree
<1>8. KeptRight(image, O, draft)
  BY <1>1, <1>7, BaseIsRight
<1>9. QED
  BY <1>4, <1>6, <1>8 DEF meant

LEMMA InsertMatches ==
  ASSUME NEW j, j.root \in Paths, NEW image, NEW source, NEW draft, NEW nodes,
         nodes = Below(j.from) \cap DOMAIN source.name, j.root \notin DOMAIN image.name,
         Planted(j, image, source, DOMAIN image.name, {j.root}, nodes, draft)
  PROVE  Matches(View(draft), TreeMeaning(j, image, source)) /\ KeptRight(image, TreeFrom(j, image, source), draft)
<1>1. DOMAIN image.name \cap Below(j.root) = {}
  BY NothingBelow DEF Planted
<1>2. /\ DOMAIN image.name = DOMAIN image.name \ Below(j.root)
      /\ {j.root} = {j.root} \ DOMAIN image.name
  BY <1>1
<1>3. QED
  BY <1>2, TreeMatches

LEMMA ReplaceMatches ==
  ASSUME NEW j, j.root \in Paths, j.from \in Paths, NEW image, NEW source, NEW kept, NEW draft, NEW nodes,
         nodes = Below(j.from) \cap DOMAIN source.name,
         Planted(j, image, source, kept, {}, nodes, draft),
         DOMAIN image.name \ Below(j.root) \subseteq kept,
         Exists(draft, j.root), Below(j.root) \cap DOMAIN draft.name = Placed(j, nodes)
  PROVE  Matches(View(draft), TreeMeaning(j, image, source)) /\ KeptRight(image, TreeFrom(j, image, source), draft)
<1>1. /\ DOMAIN draft.name = kept \cup {} \cup Placed(j, nodes)
      /\ kept \subseteq DOMAIN image.name /\ (kept \cup {}) \cap Placed(j, nodes) = {}
  <2>1. DOMAIN draft.name = kept \cup {} \cup Placed(j, nodes)
    BY PlantedFacts
  <2>2. kept \subseteq DOMAIN image.name /\ (kept \cup {}) \cap Placed(j, nodes) = {}
    BY DEF Planted, Apart
  <2>3. QED
    BY <2>1, <2>2
<1>2. kept = DOMAIN image.name \ Below(j.root)
  BY <1>1
<1>3. j.root \notin Placed(j, nodes)
  BY NotBelowItself, TargetIsBelow DEF Placed, Planted, Apart
<1>4. {} = {j.root} \ kept
  BY <1>1, <1>3 DEF Exists
<1>5. QED
  BY <1>2, <1>4, TreeMatches

-----------------------------------------------------------------------------
(* Lists of members and nodes that are still to do.                        *)
IsList(list) == \E S : list \in Seq(S)

Suffix(all, list) ==
  /\ Len(list) <= Len(all)
  /\ \A i \in 1..Len(list) : list[i] = all[(Len(all) - Len(list)) + i]

LEMMA ListFacts ==
  ASSUME NEW list, IsList(list)
  PROVE  /\ Len(list) \in Nat
         /\ list # << >> => /\ IsList(Tail(list)) /\ Len(list) > 0 /\ Head(list) = list[1]
                            /\ Len(Tail(list)) = Len(list) - 1
                            /\ \A i \in 1..Len(Tail(list)) : Tail(list)[i] = list[i + 1]
<1>1. PICK S : list \in Seq(S)
  BY DEF IsList
<1>2. Len(list) \in Nat
  BY <1>1, LenProperties
<1>3. CASE list # << >>
  <2>1. /\ Head(list) \in S /\ Tail(list) \in Seq(S) /\ Len(Tail(list)) = Len(list) - 1
        /\ \A i \in 1..Len(Tail(list)) : Tail(list)[i] = list[i + 1]
    BY <1>1, <1>3, HeadTailProperties
  <2>2. Len(list) > 0
    BY <1>1, <1>2, <1>3, EmptySeq
  <2>3. Head(list) = list[1]
    BY DEF Head
  <2>4. QED
    BY <1>2, <2>1, <2>2, <2>3 DEF IsList
<1>4. QED
  BY <1>2, <1>3

LEMMA SuffixFacts ==
  ASSUME NEW all, Len(all) \in Nat, NEW list, IsList(list), Suffix(all, list), list # << >>
  PROVE  /\ Suffix(all, Tail(list)) /\ Head(list) = all[(Len(all) - Len(list)) + 1]
         /\ Len(all) - Len(list) \in Nat /\ Len(all) - Len(list) < Len(all)
         /\ Len(all) - Len(Tail(list)) = (Len(all) - Len(list)) + 1
<1>. DEFINE a == Len(all)
            l == Len(list)
            t == Len(Tail(list))
<1>1. /\ l \in Nat /\ l > 0 /\ Head(list) = list[1] /\ t = l - 1 /\ a \in Nat
      /\ \A i \in 1..t : Tail(list)[i] = list[i + 1]
  BY ListFacts
<1>2. l <= a /\ \A i \in 1..l : list[i] = all[(a - l) + i]
  BY DEF Suffix
<1>. HIDE DEF a, l, t
<1>3. t <= a /\ a - l \in Nat /\ a - l < a /\ a - t = (a - l) + 1 /\ 1 \in 1..l
  BY <1>1, <1>2
<1>4. ASSUME NEW i \in 1..t PROVE Tail(list)[i] = all[(a - t) + i]
  <2>1. i + 1 \in 1..l /\ (a - t) + i = (a - l) + (i + 1)
    BY <1>1, <1>2
  <2>2. list[i + 1] = all[(a - l) + (i + 1)]
    BY <1>2, <2>1
  <2>3. QED
    BY <1>1, <2>1, <2>2
<1>5. Head(list) = all[(a - l) + 1]
  BY <1>1, <1>2, <1>3
<1>6. QED
  BY <1>3, <1>4, <1>5 DEF Suffix, a, l, t

LEMMA SuffixFirst ==
  ASSUME NEW list, IsList(list)
  PROVE  Suffix(list, list)
BY ListFacts DEF Suffix

-----------------------------------------------------------------------------
(* A tree job: nodes to insert come last; before them the root, or what is *)
(* to be removed.                                                          *)
Plan(j, source, list) ==
  LET nodes == tree_inventory(source, j.from)
      n == Len(nodes)
      later(i) == Len(list) - i
  IN /\ IsList(list)
     /\ j.op = "insert_tree" => Len(list) <= n + 1
     /\ \A i \in 1..Len(list) :
          /\ later(i) < n =>
               list[i] = [do |-> "insert", name |-> j.target[nodes[n - later(i)]],
                          from |-> nodes[n - later(i)]]
          /\ later(i) >= n /\ j.op = "insert_tree" => list[i] = [do |-> "root", name |-> j.root]
          /\ later(i) >= n /\ j.op = "replace_tree" =>
               list[i].do \in {"rmdir", "unlink"} /\ list[i].name \in Below(j.root)

LEMMA PlanTail ==
  ASSUME NEW j, NEW source, NEW list, Plan(j, source, list), list # << >>
  PROVE  Plan(j, source, Tail(list))
<1>. DEFINE nodes == tree_inventory(source, j.from)
            n == Len(nodes)
            l == Len(list)
            t == Len(Tail(list))
            Right(x, k) ==
              /\ k < n => x = [do |-> "insert", name |-> j.target[nodes[n - k]], from |-> nodes[n - k]]
              /\ k >= n /\ j.op = "insert_tree" => x = [do |-> "root", name |-> j.root]
              /\ k >= n /\ j.op = "replace_tree" => x.do \in {"rmdir", "unlink"} /\ x.name \in Below(j.root)
<1>1. /\ IsList(Tail(list)) /\ l \in Nat /\ l > 0 /\ t = l - 1
      /\ \A i \in 1..t : Tail(list)[i] = list[i + 1]
  BY ListFacts DEF Plan
<1>2. /\ j.op = "insert_tree" => l <= n + 1
      /\ \A i \in 1..l : Right(list[i], l - i)
  BY DEF Plan
<1>3. n \in Nat
  BY InventoryFacts
<1>. HIDE DEF l, t, Right, n
<1>4. j.op = "insert_tree" => t <= n + 1
  BY <1>1, <1>2, <1>3
<1>5. ASSUME NEW i \in 1..t PROVE Right(Tail(list)[i], t - i)
  <2>1. i + 1 \in 1..l /\ t - i = l - (i + 1)
    BY <1>1
  <2>2. QED
    BY <1>1, <1>2, <2>1
<1>6. QED
  BY <1>1, <1>4, <1>5 DEF Plan, t, Right, n

LEMMA PlanHead ==
  ASSUME NEW j, NEW source, NEW list, Plan(j, source, list), list # << >>,
         NEW nodes, nodes = tree_inventory(source, j.from)
  PROVE  /\ Len(list) \in Nat /\ Len(list) > 0 /\ Len(nodes) \in Nat
         /\ Len(list) <= Len(nodes) =>
              /\ (Len(nodes) - Len(list)) + 1 \in 1..Len(nodes)
              /\ Head(list) = [do |-> "insert", name |-> j.target[nodes[(Len(nodes) - Len(list)) + 1]],
                               from |-> nodes[(Len(nodes) - Len(list)) + 1]]
         /\ Len(list) > Len(nodes) /\ j.op = "insert_tree" =>
              Len(list) = Len(nodes) + 1 /\ Head(list) = [do |-> "root", name |-> j.root]
         /\ Len(list) > Len(nodes) /\ j.op = "replace_tree" =>
              Head(list).do \in {"rmdir", "unlink"} /\ Head(list).name \in Below(j.root)
<1>. DEFINE n == Len(nodes)
            l == Len(list)
            Right(x, k) ==
              /\ k < n => x = [do |-> "insert", name |-> j.target[nodes[n - k]], from |-> nodes[n - k]]
              /\ k >= n /\ j.op = "insert_tree" => x = [do |-> "root", name |-> j.root]
              /\ k >= n /\ j.op = "replace_tree" => x.do \in {"rmdir", "unlink"} /\ x.name \in Below(j.root)
<1>1. /\ l \in Nat /\ l > 0 /\ Head(list) = list[1]
  BY ListFacts DEF Plan
<1>2. /\ j.op = "insert_tree" => l <= n + 1
      /\ \A i \in 1..l : Right(list[i], l - i)
  BY DEF Plan
<1>3. n \in Nat
  BY InventoryFacts
<1>. HIDE DEF n, l
<1>4. 1 \in 1..l /\ Right(list[1], l - 1)
  <2>. HIDE DEF Right
  <2>1. QED
    BY <1>1, <1>2
<1>5. CASE l <= n
  <2>1. l - 1 < n /\ n - (l - 1) = (n - l) + 1 /\ (n - l) + 1 \in 1..n
    BY <1>1, <1>3, <1>5
  <2>2. list[1] = [do |-> "insert", name |-> j.target[nodes[n - (l - 1)]], from |-> nodes[n - (l - 1)]]
    BY <1>4, <2>1
  <2>3. Head(list) = [do |-> "insert", name |-> j.target[nodes[(n - l) + 1]], from |-> nodes[(n - l) + 1]]
    BY <1>1, <2>1, <2>2
  <2>4. ~(l > n)
    BY <1>1, <1>3, <1>5
  <2>5. QED
    BY <1>1, <1>3, <2>1, <2>3, <2>4 DEF n, l
<1>6. CASE l > n
  <2>1. l - 1 >= n /\ ~(l <= n) /\ (l <= n + 1 => l = n + 1)
    BY <1>1, <1>3, <1>6
  <2>2. /\ j.op = "insert_tree" => l = n + 1 /\ Head(list) = [do |-> "root", name |-> j.root]
        /\ j.op = "replace_tree" => Head(list).do \in {"rmdir", "unlink"} /\ Head(list).name \in Below(j.root)
    BY <1>1, <1>2, <1>4, <2>1
  <2>3. QED
    BY <1>1, <1>3, <2>1, <2>2 DEF n, l
<1>7. QED
  BY <1>1, <1>3, <1>5, <1>6

(* What a job starts with is such a list.                                  *)
LEMMA InsertionsAre ==
  ASSUME NEW source, NEW root, NEW target, NEW nodes, nodes = tree_inventory(source, root),
         NEW list, list = Insertions(source, root, target)
  PROVE  /\ IsList(list) /\ Len(list) = Len(nodes) /\ Len(nodes) \in Nat
         /\ \A i \in 1..Len(list) : list[i] = [do |-> "insert", name |-> target[nodes[i]], from |-> nodes[i]]
<1>. DEFINE n == Len(nodes)
            Insert(i) == [do |-> "insert", name |-> target[nodes[i]], from |-> nodes[i]]
<1>1. n \in Nat
  BY InventoryFacts
<1>2. list = [i \in 1..n |-> Insert(i)]
  BY DEF Insertions
<1>. HIDE DEF n, Insert
<1>3. list \in Seq({Insert(i) : i \in 1..n}) /\ Len(list) = n
  <2>1. list \in [1..n -> {Insert(i) : i \in 1..n}]
    BY <1>2
  <2>2. list \in Seq({Insert(i) : i \in 1..n})
    BY <1>1, <2>1, SeqDef
  <2>3. DOMAIN list = 1..n
    BY <1>2
  <2>4. QED
    BY <1>1, <2>2, <2>3, LenProperties
<1>4. QED
  BY <1>1, <1>2, <1>3 DEF IsList, n, Insert

LEMMA RemovalsAre ==
  ASSUME NEW image, NEW root, NEW nodes, nodes = tree_inventory(image, root),
         NEW list, list = Removals(image, root)
  PROVE  /\ IsList(list) /\ Len(list) = Len(nodes) /\ Len(nodes) \in Nat
         /\ \A i \in 1..Len(list) : list[i] = Removal(image, nodes[Len(nodes) + 1 - i])
<1>. DEFINE n == Len(nodes)
            Remove(i) == Removal(image, nodes[n + 1 - i])
<1>1. n \in Nat
  BY InventoryFacts
<1>2. list = [i \in 1..n |-> Remove(i)]
  BY DEF Removals
<1>. HIDE DEF n, Remove
<1>3. list \in Seq({Remove(i) : i \in 1..n}) /\ Len(list) = n
  <2>1. list \in [1..n -> {Remove(i) : i \in 1..n}]
    BY <1>2
  <2>2. list \in Seq({Remove(i) : i \in 1..n})
    BY <1>1, <2>1, SeqDef
  <2>3. DOMAIN list = 1..n
    BY <1>2
  <2>4. QED
    BY <1>1, <2>2, <2>3, LenProperties
<1>4. QED
  BY <1>1, <1>2, <1>3 DEF IsList, n, Remove

Joins(a, b, both) ==
  /\ IsList(both) /\ Len(both) = Len(a) + Len(b) /\ Len(a) \in Nat /\ Len(b) \in Nat
  /\ \A i \in 1..Len(a) : both[i] = a[i]
  /\ \A i \in 1..Len(b) : both[Len(a) + i] = b[i]

LEMMA JoinFacts ==
  ASSUME NEW a, IsList(a), NEW b, IsList(b)
  PROVE  Joins(a, b, a \o b)
<1>1. PICK S : a \in Seq(S)
  BY DEF IsList
<1>2. PICK T : b \in Seq(T)
  BY DEF IsList
<1>3. a \in Seq(S \cup T) /\ b \in Seq(S \cup T)
  BY <1>1, <1>2
<1>4. a \o b \in Seq(S \cup T)
  BY <1>3, ConcatProperties
<1>5. Len(a) \in Nat /\ Len(b) \in Nat
  BY <1>1, <1>2, LenProperties
<1>6. Len(a \o b) = Len(a) + Len(b)
  BY <1>3, ConcatProperties
<1>7. \A i \in 1..(Len(a) + Len(b)) : (a \o b)[i] = IF i <= Len(a) THEN a[i] ELSE b[i - Len(a)]
  BY <1>3, ConcatProperties
<1>8. \A i \in 1..Len(a) : (a \o b)[i] = a[i]
  BY <1>5, <1>7
<1>9. ASSUME NEW i \in 1..Len(b) PROVE (a \o b)[Len(a) + i] = b[i]
  <2>1. Len(a) + i \in 1..(Len(a) + Len(b)) /\ ~(Len(a) + i <= Len(a)) /\ (Len(a) + i) - Len(a) = i
    BY <1>5
  <2>2. QED
    BY <1>7, <2>1
<1>10. IsList(a \o b)
  BY <1>4 DEF IsList
<1>11. QED
  BY <1>5, <1>6, <1>8, <1>9, <1>10 DEF Joins

Opens(j, first) ==
  /\ IsList(first)
  /\ j.op = "insert_tree" => Len(first) = 1
  /\ \A i \in 1..Len(first) :
       /\ j.op = "insert_tree" => first[i] = [do |-> "root", name |-> j.root]
       /\ j.op = "replace_tree" => first[i].do \in {"rmdir", "unlink"} /\ first[i].name \in Below(j.root)

Starts(j, source, first, list) ==
  /\ Plan(j, source, list) /\ Len(list) = Len(first) + Len(tree_inventory(source, j.from))
  /\ Len(first) \in Nat /\ Len(tree_inventory(source, j.from)) \in Nat

LEMMA PlanJoined ==
  ASSUME NEW j, NEW source, NEW first, Opens(j, first)
  PROVE  Starts(j, source, first, first \o Insertions(source, j.from, j.target))
<1>. DEFINE nodes == tree_inventory(source, j.from)
            then == Insertions(source, j.from, j.target)
            list == first \o then
            n == Len(nodes)
            f == Len(first)
            Insert(x, i) == x = [do |-> "insert", name |-> j.target[nodes[i]], from |-> nodes[i]]
            Before(x) ==
              /\ j.op = "insert_tree" => x = [do |-> "root", name |-> j.root]
              /\ j.op = "replace_tree" => x.do \in {"rmdir", "unlink"} /\ x.name \in Below(j.root)
<1>1. /\ IsList(then) /\ Len(then) = n /\ n \in Nat
      /\ \A i \in 1..n : Insert(then[i], i)
  BY InsertionsAre
<1>. HIDE DEF nodes, then
<1>2. /\ IsList(list) /\ Len(list) = f + n /\ f \in Nat
      /\ \A i \in 1..f : list[i] = first[i]
      /\ \A i \in 1..n : list[f + i] = then[i]
  <2>1. IsList(first)
    BY DEF Opens
  <2>2. Joins(first, then, list)
    BY <1>1, <2>1, JoinFacts
  <2>. HIDE DEF list, n
  <2>3. QED
    BY <1>1, <2>2 DEF Joins
<1>3. \A i \in 1..f : Before(first[i])
  BY DEF Opens
<1>4. j.op = "insert_tree" => f = 1
  BY DEF Opens
<1>. HIDE DEF list, n, f, Insert, Before
<1>5. ASSUME NEW i \in 1..(f + n)
      PROVE  /\ (f + n) - i < n => Insert(list[i], n - ((f + n) - i))
             /\ (f + n) - i >= n => Before(list[i])
  <2>1. CASE i <= f
    <3>1. i \in 1..f /\ ~((f + n) - i < n)
      BY <1>1, <1>2, <2>1
    <3>2. QED
      BY <1>2, <1>3, <3>1
  <2>2. CASE i > f
    <3>1. i - f \in 1..n /\ f + (i - f) = i /\ n - ((f + n) - i) = i - f /\ ~((f + n) - i >= n)
      BY <1>1, <1>2, <2>2
    <3>2. list[f + (i - f)] = then[i - f] /\ Insert(then[i - f], i - f)
      BY <1>1, <1>2, <3>1
    <3>3. QED
      BY <3>1, <3>2
  <2>3. QED
    BY <1>2, <2>1, <2>2
<1>6. j.op = "insert_tree" => f + n <= n + 1
  BY <1>1, <1>2, <1>4
<1>7. \A i \in 1..Len(list) :
          /\ Len(list) - i < n => Insert(list[i], n - (Len(list) - i))
          /\ Len(list) - i >= n => Before(list[i])
  BY <1>2, <1>5
<1>8. /\ IsList(list) /\ (j.op = "insert_tree" => Len(list) <= n + 1)
  BY <1>2, <1>6
<1>9. Plan(j, source, list)
  BY <1>7, <1>8 DEF Plan, nodes, n, Insert, Before
<1>10. QED
  BY <1>1, <1>2, <1>9 DEF Starts, list, nodes, then, n, f

(* The steps of a tree job, on the images that they find.                  *)
TreeList(j, image, source) ==
  IF j.op = "insert_tree"
  THEN <<[do |-> "root", name |-> j.root]>> \o Insertions(source, j.from, j.target)
  ELSE Removals(image, j.root) \o Insertions(source, j.from, j.target)

Begins(j, source, list) ==
  LET n == Len(tree_inventory(source, j.from))
  IN /\ Plan(j, source, list) /\ Len(list) \in Nat /\ n \in Nat /\ Len(list) >= n
     /\ j.op = "insert_tree" => Len(list) = n + 1

LEMMA PlanBegins ==
  ASSUME NEW j, j.op \in {"insert_tree", "replace_tree"}, NEW image, NEW source
  PROVE  Begins(j, source, TreeList(j, image, source))
<1> DEFINE list == TreeList(j, image, source)
           n == Len(tree_inventory(source, j.from))
<1>a. list = TreeList(j, image, source) /\ n = Len(tree_inventory(source, j.from))
  OBVIOUS
<1> HIDE DEF list, n
<1> DEFINE Holds ==
             /\ Plan(j, source, list) /\ Len(list) \in Nat /\ n \in Nat /\ Len(list) >= n
             /\ j.op = "insert_tree" => Len(list) = n + 1
<1>1. ASSUME j.op = "insert_tree" PROVE Holds
  <2>. DEFINE first == <<[do |-> "root", name |-> j.root]>>
  <2>1. IsList(first) /\ Len(first) = 1 /\ \A i \in 1..1 : first[i] = [do |-> "root", name |-> j.root]
    <3>1. first \in Seq({[do |-> "root", name |-> j.root]})
      OBVIOUS
    <3>2. Len(first) = 1 /\ first[1] = [do |-> "root", name |-> j.root]
      OBVIOUS
    <3>. HIDE DEF first
    <3>3. \A i \in 1..1 : first[i] = [do |-> "root", name |-> j.root]
      BY <3>2
    <3>4. QED
      BY <3>1, <3>2, <3>3 DEF IsList
  <2>2. j.op # "replace_tree"
    BY <1>1
  <2>3. list = first \o Insertions(source, j.from, j.target)
    BY <1>1, <1>a DEF TreeList
  <2>. HIDE DEF first
  <2>4. Opens(j, first)
    BY <2>1, <2>2 DEF Opens
  <2>5. Starts(j, source, first, list)
    BY <2>3, <2>4, PlanJoined
  <2>6. QED
    BY <2>1, <2>5, <1>a DEF Starts
<1>2. ASSUME j.op = "replace_tree" PROVE Holds
  <2>. DEFINE old == tree_inventory(image, j.root)
              first == Removals(image, j.root)
  <2>1. /\ IsList(first) /\ Len(first) = Len(old) /\ Len(old) \in Nat
        /\ \A i \in 1..Len(first) : first[i] = Removal(image, old[Len(old) + 1 - i])
    BY RemovalsAre
  <2>2. \A i \in 1..Len(old) : old[i] \in Below(j.root)
    BY InventoryFacts
  <2>3. j.op # "insert_tree" /\ list = first \o Insertions(source, j.from, j.target)
    BY <1>2, <1>a DEF TreeList
  <2>. HIDE DEF first, old
  <2>4. ASSUME NEW i \in 1..Len(first) PROVE first[i].do \in {"rmdir", "unlink"} /\ first[i].name \in Below(j.root)
    <3>1. Len(old) + 1 - i \in 1..Len(old)
      BY <2>1
    <3>2. first[i] = Removal(image, old[Len(old) + 1 - i])
      BY <2>1
    <3>3. old[Len(old) + 1 - i] \in Below(j.root)
      BY <2>2, <3>1
    <3>4. first[i].do \in {"rmdir", "unlink"} /\ first[i].name = old[Len(old) + 1 - i]
      BY <3>2 DEF Removal
    <3>5. QED
      BY <3>3, <3>4
  <2>5. Opens(j, first)
    BY <2>1, <2>3, <2>4 DEF Opens
  <2>6. Starts(j, source, first, list)
    BY <2>3, <2>5, PlanJoined
  <2>7. QED
    BY <2>3, <2>6, <1>a DEF Starts
<1>3. Holds
  BY <1>1, <1>2
<1>4. /\ Plan(j, source, list) /\ Len(list) \in Nat /\ n \in Nat /\ Len(list) >= n
      /\ j.op = "insert_tree" => Len(list) = n + 1
  BY <1>3
<1>. HIDE DEF Holds
<1>5. Begins(j, source, list)
  BY <1>4, <1>a DEF Begins
<1>6. QED
  BY <1>5, <1>a

LEMMA PlanFirst ==
  ASSUME NEW j, j.op \in {"insert_tree", "replace_tree"}, NEW image, NEW source,
         NEW list, list = TreeList(j, image, source), NEW n, n = Len(tree_inventory(source, j.from))
  PROVE  /\ Plan(j, source, list) /\ Len(list) \in Nat /\ n \in Nat /\ Len(list) >= n
         /\ j.op = "insert_tree" => Len(list) = n + 1
<1>1. Begins(j, source, list)
  BY PlanBegins
<1>2. QED
  BY <1>1 DEF Begins

(* How far the draft is when list is still to be done.                     *)
Growing(j, image, source, list, draft) ==
  LET nodes == tree_inventory(source, j.from)
      n == Len(nodes)
  IN \E kept :
       /\ Planted(j, image, source, kept,
                  IF j.op = "insert_tree" /\ Len(list) <= n THEN {j.root} ELSE {},
                  {nodes[i] : i \in 1..(n - Len(list))}, draft)
       /\ DOMAIN image.name \ Below(j.root) \subseteq kept
       /\ j.op = "insert_tree" =>
            /\ kept = DOMAIN image.name
            /\ Len(list) <= n => j.root \notin DOMAIN image.name

LEMMA GrowingFirst ==
  ASSUME NEW j, IsTarget(j), NEW image, IsUFS(image), NEW source, IsUFS(source),
         NEW list, Len(list) \in Nat, NEW nodes, nodes = tree_inventory(source, j.from),
         Len(list) >= Len(nodes), j.op = "insert_tree" => Len(list) = Len(nodes) + 1
  PROVE  Growing(j, image, source, list, image)
<1>1. Planted(j, image, source, DOMAIN image.name, {}, {}, image)
  BY PlantedFirst
<1>. DEFINE n == Len(nodes)
<1>2. n \in Nat
  BY InventoryFacts
<1>. HIDE DEF n
<1>3. 1..(n - Len(list)) = {} /\ ~(j.op = "insert_tree" /\ Len(list) <= n)
  BY <1>2 DEF n
<1>4. {nodes[i] : i \in 1..(n - Len(list))} = {}
  BY <1>3
<1>5. /\ Planted(j, image, source, DOMAIN image.name,
                 IF j.op = "insert_tree" /\ Len(list) <= n THEN {j.root} ELSE {},
                 {nodes[i] : i \in 1..(n - Len(list))}, image)
      /\ DOMAIN image.name \ Below(j.root) \subseteq DOMAIN image.name
      /\ j.op = "insert_tree" =>
           /\ DOMAIN image.name = DOMAIN image.name
           /\ Len(list) <= n => j.root \notin DOMAIN image.name
  BY <1>1, <1>3, <1>4
<1>6. QED
  BY <1>5 DEF Growing, n

TreeStep(source, t, draft) ==
  CASE t.do = "rmdir" -> rmdir(draft, t.name)
    [] t.do = "unlink" -> unlink(draft, t.name)
    [] t.do = "insert" -> inserted(draft, source, t.name, t.from)
    [] t.do = "root" -> mkdir(draft, t.name)

LEMMA GrowingStep ==
  ASSUME NEW j, j.op \in {"insert_tree", "replace_tree"}, j.root \in Paths,
         NEW image, NEW source, NEW list, NEW draft,
         Plan(j, source, list), list # << >>, Growing(j, image, source, list, draft),
         NEW new \in TreeStep(source, Head(list), draft)
  PROVE  Growing(j, image, source, Tail(list), new)
<1>. DEFINE nodes == tree_inventory(source, j.from)
            n == Len(nodes)
            l == Len(list)
            t == Head(list)
            fresh(k) == IF j.op = "insert_tree" /\ k <= n THEN {j.root} ELSE {}
            in(k) == {nodes[i] : i \in 1..(n - k)}
            Kept(kept, k) ==
              /\ DOMAIN image.name \ Below(j.root) \subseteq kept
              /\ j.op = "insert_tree" =>
                   /\ kept = DOMAIN image.name
                   /\ k <= n => j.root \notin DOMAIN image.name
<1>1. PICK kept : Planted(j, image, source, kept, fresh(l), in(l), draft) /\ Kept(kept, l)
  BY DEF Growing
<1>2. /\ l \in Nat /\ l > 0 /\ n \in Nat
      /\ l <= n => /\ (n - l) + 1 \in 1..n
                   /\ t = [do |-> "insert", name |-> j.target[nodes[(n - l) + 1]], from |-> nodes[(n - l) + 1]]
      /\ l > n /\ j.op = "insert_tree" => l = n + 1 /\ t = [do |-> "root", name |-> j.root]
      /\ l > n /\ j.op = "replace_tree" => t.do \in {"rmdir", "unlink"} /\ t.name \in Below(j.root)
  BY PlanHead
<1>3. Len(Tail(list)) = l - 1
  BY ListFacts DEF Plan
<1>4. SUFFICES \E k : Planted(j, image, source, k, fresh(l - 1), in(l - 1), new) /\ Kept(k, l - 1)
  BY <1>3 DEF Growing
<1>5. /\ {nodes[i] : i \in 1..n} = Below(j.from) \cap DOMAIN source.name
      /\ \A a, b \in 1..n : nodes[a] = nodes[b] => a = b
  BY InventoryFacts
<1>6. /\ new \in TreeStep(source, t, draft)
      /\ t.do = "rmdir" => TreeStep(source, t, draft) = rmdir(draft, t.name)
      /\ t.do = "unlink" => TreeStep(source, t, draft) = unlink(draft, t.name)
      /\ t.do = "insert" => TreeStep(source, t, draft) = inserted(draft, source, t.name, t.from)
      /\ t.do = "root" => TreeStep(source, t, draft) = mkdir(draft, t.name)
  BY DEF TreeStep
<1>. HIDE DEF nodes, n, l, t
<1>7. CASE l <= n
  <2>. DEFINE q == nodes[(n - l) + 1]
  <2>1. /\ (n - l) + 1 \in 1..n /\ t = [do |-> "insert", name |-> j.target[q], from |-> q]
    BY <1>2, <1>7
  <2>2. t.do = "insert" /\ t.name = j.target[q] /\ t.from = q
    BY <2>1
  <2>3. q \in Below(j.from) \cap DOMAIN source.name
    BY <1>5, <2>1
  <2>4. q \notin in(l)
    BY <1>2, <1>5, <1>7
  <2>5. in(l - 1) = in(l) \cup {q}
    <3>1. 1..(n - (l - 1)) = 1..(n - l) \cup {(n - l) + 1}
      BY <1>2, <1>7
    <3>2. QED
      BY <3>1
  <2>6. fresh(l - 1) = fresh(l) /\ Kept(kept, l - 1)
    BY <1>1, <1>2, <1>7
  <2>7. new \in inserted(draft, source, j.target[q], q)
    BY <1>6, <2>2
  <2>. HIDE DEF q, in, fresh, Kept
  <2>8. Planted(j, image, source, kept, fresh(l), in(l) \cup {q}, new)
    BY <1>1, <2>3, <2>4, <2>7, PlantedInserts
  <2>9. QED
    BY <2>5, <2>6, <2>8
<1>8. CASE l > n
  <2>1. 1..(n - l) = {} /\ 1..(n - (l - 1)) = {}
    BY <1>2, <1>8
  <2>2. in(l) = {} /\ in(l - 1) = {} /\ fresh(l) = {}
    BY <1>2, <1>8, <2>1
  <2>3. Planted(j, image, source, kept, {}, {}, draft)
    BY <1>1, <2>2
  <2>4. CASE j.op = "insert_tree"
    <3>1. l = n + 1 /\ t = [do |-> "root", name |-> j.root]
      BY <1>2, <1>8, <2>4
    <3>2. t.do = "root" /\ t.name = j.root
      BY <3>1
    <3>3. new \in mkdir(draft, j.root)
      BY <1>6, <3>2
    <3>4. Planted(j, image, source, kept, {j.root}, {}, new) /\ j.root \notin kept
      BY <2>3, <3>3, PlantedRoots
    <3>5. fresh(l - 1) = {j.root}
      BY <1>2, <2>4, <3>1
    <3>6. Kept(kept, l - 1)
      BY <1>1, <2>4, <3>4
    <3>7. QED
      BY <2>2, <3>4, <3>5, <3>6
  <2>5. CASE j.op = "replace_tree"
    <3>1. t.do \in {"rmdir", "unlink"} /\ t.name \in Below(j.root)
      BY <1>2, <1>8, <2>5
    <3>2. new \in rmdir(draft, t.name) \cup unlink(draft, t.name)
      BY <1>6, <3>1
    <3>3. Planted(j, image, source, kept \ {t.name}, {}, {}, new)
      BY <2>3, <3>2, PlantedRemoves
    <3>4. fresh(l - 1) = {}
      BY <2>5
    <3>5. Kept(kept \ {t.name}, l - 1)
      BY <1>1, <2>5, <3>1
    <3>6. QED
      BY <2>2, <3>3, <3>4, <3>5
  <2>6. QED
    BY <2>4, <2>5
<1>. HIDE DEF fresh, in, Kept
<1>9. QED
  BY <1>2, <1>7, <1>8

LEMMA GrowingIsUFS ==
  ASSUME NEW j, NEW image, NEW source, NEW list, NEW draft, Growing(j, image, source, list, draft)
  PROVE  IsUFS(image) /\ IsUFS(source) /\ IsUFS(draft)
BY DEF Growing, Planted

(* Nothing is left to do, and what the writer compares is as it says.      *)
LEMMA GrownMatches ==
  ASSUME NEW j, j.root \in Paths, j.from \in Paths, j.op \in {"insert_tree", "replace_tree"},
         NEW image, NEW source, NEW draft, Growing(j, image, source, << >>, draft),
         j.op = "replace_tree" =>
           /\ Exists(draft, j.root)
           /\ Below(j.root) \cap DOMAIN draft.name = Placed(j, Below(j.from) \cap DOMAIN source.name)
  PROVE  Matches(View(draft), TreeMeaning(j, image, source)) /\ KeptRight(image, TreeFrom(j, image, source), draft)
<1>. DEFINE nodes == tree_inventory(source, j.from)
            n == Len(nodes)
            from == Below(j.from) \cap DOMAIN source.name
<1>1. n \in Nat /\ {nodes[i] : i \in 1..n} = from
  BY InventoryFacts
<1>2. PICK kept :
       /\ Planted(j, image, source, kept,
                  IF j.op = "insert_tree" /\ Len(<< >>) <= n THEN {j.root} ELSE {},
                  {nodes[i] : i \in 1..(n - Len(<< >>))}, draft)
       /\ DOMAIN image.name \ Below(j.root) \subseteq kept
       /\ j.op = "insert_tree" =>
            /\ kept = DOMAIN image.name
            /\ Len(<< >>) <= n => j.root \notin DOMAIN image.name
  BY DEF Growing
<1>3. Len(<< >>) = 0
  OBVIOUS
<1>. HIDE DEF nodes, n
<1>4. 0 <= n /\ n - 0 = n
  BY <1>1
<1>5. CASE j.op = "insert_tree"
  <2>1. Planted(j, image, source, DOMAIN image.name, {j.root}, from, draft)
        /\ j.root \notin DOMAIN image.name
    BY <1>1, <1>2, <1>3, <1>4, <1>5
  <2>2. QED
    BY <2>1, InsertMatches
<1>6. CASE j.op = "replace_tree"
  <2>1. Planted(j, image, source, kept, {}, from, draft)
    BY <1>1, <1>2, <1>3, <1>4, <1>6
  <2>2. QED
    BY <1>2, <1>6, <2>1, ReplaceMatches
<1>7. QED
  BY <1>5, <1>6

-----------------------------------------------------------------------------
(* How far a writer's copy is, whatever its job.                           *)
Overlaying(j, image, list, draft) ==
  /\ IsList(list) /\ Suffix(j.members, list) /\ IsUFS(image)
  /\ Partial(j.members, image, Origin(j.members, image), Len(j.members) - Len(list), draft)

Swapping(j, image, list, draft) ==
  /\ IsList(list) /\ Len(list) <= 1 /\ IsUFS(image)
  /\ list # << >> =>
       draft = image /\ list[1] = [do |-> "swap", name |-> j.path, data |-> j.data, attr |-> "0444"]
  /\ list = << >> =>
       /\ IsUFS(draft) /\ j.path \in DOMAIN image.name
       /\ Shows(draft, SwapOrigin(j, image), SwapWhat(j, image))

Underway(j, r, list, draft) ==
  /\ j.op = "overlay" => Overlaying(j, r.image, list, draft)
  /\ j.op = "replace_file" => Swapping(j, r.image, list, draft)
  /\ j.op \in {"insert_tree", "replace_tree"} =>
       Plan(j, r.source, list) /\ Growing(j, r.image, r.source, list, draft)

LEMMA NothingLeft ==
  ASSUME NEW list, IsList(list), Len(list) = 0
  PROVE  list = << >>
BY EmptySeq DEF IsList

LEMMA JobMembers ==
  ASSUME NEW j, IsJob(j), j.op = "overlay"
  PROVE  /\ IsList(j.members) /\ Len(j.members) \in Nat
         /\ \A i \in 1..Len(j.members) : IsMember(j.members[i])
<1>1. /\ j.members \in Seq({j.members[i] : i \in DOMAIN j.members})
      /\ \A i \in 1..Len(j.members) : IsMember(j.members[i])
  BY DEF IsJob
<1>2. IsList(j.members)
  BY <1>1 DEF IsList
<1>3. QED
  BY <1>1, <1>2, ListFacts

LEMMA OverlayingFirst ==
  ASSUME NEW j, IsJob(j), j.op = "overlay", NEW image, IsUFS(image)
  PROVE  Overlaying(j, image, j.members, image)
<1>1. IsList(j.members) /\ Len(j.members) \in Nat
  BY JobMembers
<1>2. Origins(j.members, image, Origin(j.members, image), Len(j.members))
  BY <1>1, OriginIs
<1>3. Partial(j.members, image, Origin(j.members, image), 0, image)
  BY <1>1, <1>2, PartialFirst
<1>4. Len(j.members) - Len(j.members) = 0
  BY <1>1
<1>5. QED
  BY <1>1, <1>3, <1>4, SuffixFirst DEF Overlaying

LEMMA OverlayingStep ==
  ASSUME NEW j, IsJob(j), j.op = "overlay", NEW image, NEW list, list # << >>,
         NEW draft, Overlaying(j, image, list, draft), NEW new \in Applied(draft, Head(list))
  PROVE  Overlaying(j, image, Tail(list), new)
<1>. DEFINE members == j.members
            origin == Origin(members, image)
            k == Len(members) - Len(list)
<1>1. /\ Len(members) \in Nat
      /\ \A i \in 1..Len(members) : IsMember(members[i])
  BY JobMembers
<1>2. Origins(members, image, origin, Len(members))
  BY <1>1, OriginIs
<1>3. IsList(list) /\ Suffix(members, list) /\ IsUFS(image) /\ Partial(members, image, origin, k, draft)
  BY DEF Overlaying
<1>4. /\ Suffix(members, Tail(list)) /\ Head(list) = members[k + 1]
      /\ k \in Nat /\ k < Len(members) /\ Len(members) - Len(Tail(list)) = k + 1
  BY <1>1, <1>3, SuffixFacts
<1>5. IsList(Tail(list))
  BY <1>3, ListFacts
<1>. HIDE DEF members, origin, k
<1>6. k \in 0..(Len(members) - 1)
  BY <1>1, <1>4
<1>7. Overlaid(members, image, origin, k, draft)
  BY <1>1, <1>2, <1>3, <1>6 DEF Overlaid
<1>8. new \in Applied(draft, members[k + 1])
  BY <1>4
<1>9. Partial(members, image, origin, k + 1, new)
  BY <1>4, <1>7, <1>8, AppliedPartial
<1>10. QED
  BY <1>3, <1>4, <1>5, <1>9 DEF Overlaying, members, origin

LEMMA OverlayingLast ==
  ASSUME NEW j, IsJob(j), j.op = "overlay", NEW image, NEW draft,
         Overlaying(j, image, << >>, draft)
  PROVE  Matches(View(draft), OverlayMeaning(j, image))
<1>1. Len(j.members) \in Nat
  BY JobMembers
<1>2. Len(j.members) - Len(<< >>) = Len(j.members)
  BY <1>1
<1>3. Partial(j.members, image, Origin(j.members, image), Len(j.members), draft)
  BY <1>2 DEF Overlaying
<1>4. QED
  BY <1>1, <1>3, OverlayMatches

LEMMA SwappingFirst ==
  ASSUME NEW j, NEW image, IsUFS(image), NEW list,
         list = <<[do |-> "swap", name |-> j.path, data |-> j.data, attr |-> "0444"]>>
  PROVE  Swapping(j, image, list, image)
<1>. DEFINE t == [do |-> "swap", name |-> j.path, data |-> j.data, attr |-> "0444"]
<1>1. list = <<t>>
  OBVIOUS
<1>. HIDE DEF t
<1>2. list \in Seq({t}) /\ Len(list) = 1 /\ list[1] = t /\ list # << >>
  BY <1>1
<1>3. IsList(list)
  BY <1>2 DEF IsList
<1>4. QED
  BY <1>2, <1>3 DEF Swapping, t

LEMMA SwappingStep ==
  ASSUME NEW j, j.path \in Paths, NEW image, NEW list, list # << >>, NEW draft,
         Swapping(j, image, list, draft), NEW new \in swapped(draft, Head(list))
  PROVE  Swapping(j, image, Tail(list), new)
<1>. DEFINE t == Head(list)
<1>1. /\ IsList(Tail(list)) /\ Len(list) \in Nat /\ Len(list) > 0 /\ t = list[1]
      /\ Len(Tail(list)) = Len(list) - 1
  BY ListFacts DEF Swapping
<1>2. /\ IsUFS(image) /\ draft = image /\ Len(list) <= 1
      /\ t = [do |-> "swap", name |-> j.path, data |-> j.data, attr |-> "0444"]
  BY <1>1 DEF Swapping
<1>3. t.name = j.path /\ t.data = j.data /\ t.attr = "0444"
  BY <1>2
<1>. HIDE DEF t
<1>4. /\ IsUFS(new) /\ Shows(new, SwapOrigin(j, image), SwapWhat(j, image))
      /\ j.path \in DOMAIN image.name
  BY <1>2, <1>3, SwapShows DEF t
<1>5. Len(Tail(list)) <= 1 /\ Tail(list) = << >>
  <2>1. Len(Tail(list)) = 0
    BY <1>1, <1>2
  <2>2. Tail(list) = << >>
    BY <1>1, <2>1, NothingLeft
  <2>3. Len(Tail(list)) <= 1
    BY <1>1, <1>2
  <2>4. QED
    BY <2>2, <2>3
<1>6. QED
  BY <1>1, <1>2, <1>4, <1>5 DEF Swapping

(* What the helper may leave when it takes one step t of a job.            *)
EditOf(source, t, draft) ==
  CASE t.do \in {"directory", "file", "symlink", "hardlink"} -> Applied(draft, t)
    [] t.do = "rmdir" -> rmdir(draft, t.name)
    [] t.do = "unlink" -> unlink(draft, t.name)
    [] t.do = "insert" -> inserted(draft, source, t.name, t.from)
    [] t.do = "root" -> mkdir(draft, t.name)
    [] t.do = "swap" -> swapped(draft, t)

LEMMA OverlayDoes ==
  ASSUME NEW j, IsJob(j), j.op = "overlay", NEW image, NEW list, list # << >>, NEW draft,
         Overlaying(j, image, list, draft)
  PROVE  Head(list).do \in {"directory", "file", "symlink", "hardlink"}
<1>. DEFINE t == Head(list)
<1>1. IsList(list) /\ Suffix(j.members, list)
  BY DEF Overlaying
<1>2. Len(j.members) \in Nat /\ \A i \in 1..Len(j.members) : IsMember(j.members[i])
  BY JobMembers
<1>3. /\ t = j.members[(Len(j.members) - Len(list)) + 1]
      /\ Len(j.members) - Len(list) \in Nat /\ Len(j.members) - Len(list) < Len(j.members)
  BY <1>1, <1>2, SuffixFacts
<1>. HIDE DEF t
<1>4. (Len(j.members) - Len(list)) + 1 \in 1..Len(j.members)
  BY <1>2, <1>3
<1>5. IsMember(t)
  BY <1>2, <1>3, <1>4
<1>6. QED
  BY <1>5 DEF IsMember, t

LEMMA SwapDoes ==
  ASSUME NEW j, NEW image, NEW list, list # << >>, NEW draft, Swapping(j, image, list, draft)
  PROVE  Head(list).do = "swap"
<1>1. Head(list) = [do |-> "swap", name |-> j.path, data |-> j.data, attr |-> "0444"]
  BY ListFacts DEF Swapping
<1>2. QED
  BY <1>1

LEMMA TreeDoes ==
  ASSUME NEW j, j.op \in {"insert_tree", "replace_tree"}, NEW source, NEW list, list # << >>,
         Plan(j, source, list)
  PROVE  Head(list).do \in {"rmdir", "unlink", "insert", "root"}
<1>. DEFINE nodes == tree_inventory(source, j.from)
            n == Len(nodes)
            l == Len(list)
            q == nodes[(n - l) + 1]
            t == Head(list)
<1>1. /\ l \in Nat /\ n \in Nat
      /\ l <= n => t = [do |-> "insert", name |-> j.target[q], from |-> q]
      /\ l > n /\ j.op = "insert_tree" => t = [do |-> "root", name |-> j.root]
      /\ l > n /\ j.op = "replace_tree" => t.do \in {"rmdir", "unlink"}
  BY PlanHead
<1>. HIDE DEF t, n, l, q
<1>2. CASE l <= n
  BY <1>1, <1>2 DEF t
<1>3. CASE l > n /\ j.op = "insert_tree"
  BY <1>1, <1>3 DEF t
<1>4. CASE l > n /\ j.op = "replace_tree"
  BY <1>1, <1>4 DEF t
<1>5. QED
  BY <1>1, <1>2, <1>3, <1>4

LEMMA UnderwayStep ==
  ASSUME NEW j, IsJob(j), NEW r, NEW list, list # << >>, NEW draft, Underway(j, r, list, draft),
         NEW new \in EditOf(r.source, Head(list), draft)
  PROVE  Underway(j, r, Tail(list), new)
<1>. DEFINE t == Head(list)
            image == r.image
            source == r.source
<1>1. /\ t.do \in {"directory", "file", "symlink", "hardlink"} => new \in Applied(draft, t)
      /\ t.do = "swap" => new \in swapped(draft, t)
      /\ t.do \in {"rmdir", "unlink", "insert", "root"} => new \in TreeStep(source, t, draft)
  BY DEF EditOf, TreeStep
<1>2. CASE j.op = "overlay"
  <2>1. Overlaying(j, image, list, draft)
    BY <1>2 DEF Underway
  <2>2. t.do \in {"directory", "file", "symlink", "hardlink"}
    BY <1>2, <2>1, OverlayDoes
  <2>3. Overlaying(j, image, Tail(list), new)
    BY <1>1, <1>2, <2>1, <2>2, OverlayingStep
  <2>4. QED
    BY <1>2, <2>3 DEF Underway
<1>3. CASE j.op = "replace_file"
  <2>1. Swapping(j, image, list, draft)
    BY <1>3 DEF Underway
  <2>2. j.path \in Paths
    BY <1>3 DEF IsJob
  <2>3. t.do = "swap"
    BY <2>1, SwapDoes
  <2>4. Swapping(j, image, Tail(list), new)
    BY <1>1, <2>1, <2>2, <2>3, SwappingStep
  <2>5. QED
    BY <1>3, <2>4 DEF Underway
<1>4. CASE j.op \in {"insert_tree", "replace_tree"}
  <2>1. Plan(j, source, list) /\ Growing(j, image, source, list, draft)
    BY <1>4 DEF Underway
  <2>2. j.root \in Paths
    BY <1>4 DEF IsJob
  <2>3. t.do \in {"rmdir", "unlink", "insert", "root"}
    BY <1>4, <2>1, TreeDoes
  <2>4. new \in TreeStep(source, t, draft)
    BY <1>1, <2>3
  <2>5. Growing(j, image, source, Tail(list), new)
    BY <1>4, <2>1, <2>2, <2>4, GrowingStep
  <2>6. Plan(j, source, Tail(list))
    BY <2>1, PlanTail
  <2>7. QED
    BY <1>4, <2>5, <2>6 DEF Underway
<1>5. QED
  BY <1>2, <1>3, <1>4 DEF IsJob

LEMMA UnderwayIsUFS ==
  ASSUME NEW j, IsJob(j), NEW r, NEW list, NEW draft, Underway(j, r, list, draft)
  PROVE  IsUFS(draft) /\ IsList(list)
<1>1. CASE j.op = "overlay"
  BY <1>1 DEF Underway, Overlaying, Partial
<1>2. CASE j.op = "replace_file"
  <2>1. Swapping(j, r.image, list, draft)
    BY <1>2 DEF Underway
  <2>2. QED
    BY <2>1 DEF Swapping
<1>3. CASE j.op \in {"insert_tree", "replace_tree"}
  <2>1. Plan(j, r.source, list) /\ Growing(j, r.image, r.source, list, draft)
    BY <1>3 DEF Underway
  <2>2. QED
    BY <2>1, GrowingIsUFS DEF Plan
<1>4. QED
  BY <1>1, <1>2, <1>3 DEF IsJob

(* A job that is done and is found to be so is what was asked for.         *)
Found(j, r, draft) ==
  j.op = "replace_tree" =>
    /\ Exists(draft, j.root)
    /\ Below(j.root) \cap DOMAIN draft.name = Placed(j, Below(j.from) \cap DOMAIN r.source.name)

LEMMA UnderwayLast ==
  ASSUME NEW j, IsJob(j), NEW r, NEW draft, Underway(j, r, << >>, draft), Found(j, r, draft)
  PROVE  Matches(View(draft), Meaning(j, r))
<1>1. CASE j.op = "overlay"
  <2>1. Overlaying(j, r.image, << >>, draft)
    BY <1>1 DEF Underway
  <2>2. Matches(View(draft), OverlayMeaning(j, r.image))
    BY <1>1, <2>1, OverlayingLast
  <2>3. Meaning(j, r) = OverlayMeaning(j, r.image)
    BY <1>1 DEF Meaning
  <2>4. QED
    BY <2>2, <2>3
<1>2. CASE j.op = "replace_file"
  <2>1. Swapping(j, r.image, << >>, draft)
    BY <1>2 DEF Underway
  <2>2. Matches(View(draft), ReplaceFileMeaning(j, r.image))
    BY <2>1, SwapMatches DEF Swapping
  <2>3. Meaning(j, r) = ReplaceFileMeaning(j, r.image)
    BY <1>2 DEF Meaning
  <2>4. QED
    BY <2>2, <2>3
<1>3. CASE j.op \in {"insert_tree", "replace_tree"}
  <2>1. Growing(j, r.image, r.source, << >>, draft)
    BY <1>3 DEF Underway
  <2>2. j.root \in Paths /\ j.from \in Paths
    BY <1>3 DEF IsJob
  <2>3. Matches(View(draft), TreeMeaning(j, r.image, r.source))
    BY <1>3, <2>1, <2>2, GrownMatches DEF Found
  <2>4. Meaning(j, r) = TreeMeaning(j, r.image, r.source)
    BY <1>3 DEF Meaning
  <2>5. QED
    BY <2>3, <2>4
<1>4. QED
  BY <1>1, <1>2, <1>3 DEF IsJob

-----------------------------------------------------------------------------
(* The inductive invariant.  A writer that is about to copy has a plan for *)
(* whatever image it will find, since others may publish meanwhile; one    *)
(* that edits has a draft that is as far as its list says.                 *)
Tree(j) == j.op \in {"insert_tree", "replace_tree"}

Ready(held, j, list) ==
  /\ IsUFS(held[j.image])
  /\ j.op = "overlay" => list = j.members
  /\ j.op = "replace_file" =>
       list = <<[do |-> "swap", name |-> j.path, data |-> j.data, attr |-> "0444"]>>
  /\ Tree(j) =>
       LET n == Len(tree_inventory(held[j.source], j.from))
       IN /\ IsUFS(held[j.source]) /\ Plan(j, held[j.source], list)
          /\ Len(list) \in Nat /\ Len(list) >= n
          /\ j.op = "insert_tree" => Len(list) = n + 1

Passed(j, r, draft) ==
  CASE j.op = "overlay" ->
         \A p \in Verified : \A d \in Expected(j.members, p) : node(draft, p).data = d
    [] j.op = "replace_file" -> node(draft, j.path).data = j.data
    [] j.op = "insert_tree" ->
         Len(tree_inventory(draft, j.root)) = Len(tree_inventory(r.source, j.from))
    [] j.op = "replace_tree" ->
         LET nodes == tree_inventory(r.source, j.from)
             there == tree_inventory(draft, j.root)
         IN /\ Exists(draft, j.root)
            /\ {j.target[nodes[i]] : i \in 1..Len(nodes)} = {there[i] : i \in 1..Len(there)}

WriterSound(w) ==
  /\ at[w] # "idle" => job[w] \in Jobs[w]
  /\ at[w] = "copy" => Ready(files, job[w], todo[w])
  /\ at[w] \in {"edit", "publish", "unverified", "done"} =>
       /\ Underway(job[w], read[w], todo[w], working[w])
       /\ Tree(job[w]) => read[w].source = files[job[w].source]
  /\ at[w] \in {"publish", "unverified", "done"} => todo[w] = << >>
  /\ at[w] \in {"publish", "done"} => Passed(job[w], read[w], working[w])

FilesSound ==
  /\ \E fs \in Images : DOMAIN files = DOMAIN fs
  /\ \A f \in DOMAIN files : files[f] = Absent \/ IsUFS(files[f])

DomainsSound ==
  DOMAIN at = Writers /\ DOMAIN job = Writers /\ DOMAIN todo = Writers
  /\ DOMAIN working = Writers /\ DOMAIN read = Writers

ImageInv == DomainsSound /\ FilesSound /\ \A w \in Writers : WriterSound(w)

LEMMA PassedIs == \A w : Passes(w) = Passed(job[w], read[w], working[w])
BY DEF Passes, Passed

LEMMA PassedIsFound ==
  ASSUME NEW j, NEW r, NEW draft, Passed(j, r, draft)
  PROVE  Found(j, r, draft)
<1>. SUFFICES ASSUME j.op = "replace_tree" PROVE Found(j, r, draft)
  BY DEF Found
<1>. DEFINE nodes == tree_inventory(r.source, j.from)
            there == tree_inventory(draft, j.root)
<1>1. /\ Exists(draft, j.root)
      /\ {j.target[nodes[i]] : i \in 1..Len(nodes)} = {there[i] : i \in 1..Len(there)}
  BY DEF Passed
<1>2. {nodes[i] : i \in 1..Len(nodes)} = Below(j.from) \cap DOMAIN r.source.name
  BY InventoryFacts
<1>3. {there[i] : i \in 1..Len(there)} = Below(j.root) \cap DOMAIN draft.name
  BY InventoryFacts
<1>. HIDE DEF nodes, there
<1>4. Placed(j, {nodes[i] : i \in 1..Len(nodes)}) = {j.target[nodes[i]] : i \in 1..Len(nodes)}
  BY DEF Placed
<1>5. QED
  BY <1>1, <1>2, <1>3, <1>4 DEF Found

LEMMA JobIs ==
  ASSUME FilesSound, NEW w \in Writers, NEW j \in Jobs[w]
  PROVE  /\ IsJob(j) /\ j.image \in DOMAIN files /\ j.output \in DOMAIN files
         /\ Tree(j) => j.source \in DOMAIN files
<1>1. PICK fs \in Images : DOMAIN files = DOMAIN fs
  BY DEF FilesSound
<1>2. IsJob(j)
  BY ImageAssumption
<1>3. j.image \in DOMAIN fs /\ j.output \in DOMAIN fs
  BY ImageAssumption
<1>4. Tree(j) => j.source \in DOMAIN fs
  BY ImageAssumption DEF Tree
<1>5. QED
  BY <1>1, <1>2, <1>3, <1>4

(* A writer that others leave alone stays sound.                           *)
Undisturbed(w) ==
  /\ at'[w] = at[w] /\ job'[w] = job[w] /\ todo'[w] = todo[w]
  /\ working'[w] = working[w] /\ read'[w] = read[w]

FileKept(j) ==
  /\ IsUFS(files[j.image]) => IsUFS(files'[j.image])
  /\ Tree(j) => files'[j.source] = files[j.source]

LEMMA StaysSound ==
  ASSUME NEW w \in Writers, WriterSound(w), Undisturbed(w), at[w] # "idle" => FileKept(job[w])
  PROVE  WriterSound(w)'
<1>1. at[w] = "copy" => Ready(files', job[w], todo[w])
  BY DEF WriterSound, Ready, FileKept
<1>2. at[w] \in {"edit", "publish", "unverified", "done"} =>
        (Tree(job[w]) => read[w].source = files'[job[w].source])
  BY DEF WriterSound, FileKept
<1>3. QED
  BY <1>1, <1>2 DEF WriterSound, Undisturbed

LEMMA ImageInvInit == Init => ImageInv
<1>. SUFFICES ASSUME Init PROVE ImageInv
  OBVIOUS
<1>1. DomainsSound /\ \A w \in Writers : at[w] = "idle"
  BY DEF Init, DomainsSound
<1>2. FilesSound
  BY ImageAssumption DEF Init, FilesSound
<1>3. \A w \in Writers : WriterSound(w)
  BY <1>1 DEF WriterSound
<1>4. QED
  BY <1>1, <1>2, <1>3 DEF ImageInv

LEMMA StartSound ==
  ASSUME ImageInv, NEW w \in Writers, start(w)
  PROVE  ImageInv'
<1>1. DomainsSound /\ FilesSound /\ \A v \in Writers : WriterSound(v)
  BY DEF ImageInv
<1>2. PICK j \in Jobs[w] : /\ Accepts(j)
                           /\ job' = [job EXCEPT ![w] = j]
                           /\ todo' = [todo EXCEPT ![w] = Todo(j)]
  BY DEF start
<1>3. at' = [at EXCEPT ![w] = "copy"] /\ UNCHANGED <<files, working, read>>
  BY DEF start
<1>4. DomainsSound' /\ FilesSound'
  BY <1>1, <1>2, <1>3 DEF DomainsSound, FilesSound
<1>5. at'[w] = "copy" /\ job'[w] = j /\ todo'[w] = Todo(j)
  BY <1>1, <1>2, <1>3 DEF DomainsSound
<1>6. ASSUME NEW v \in Writers, v # w PROVE WriterSound(v)'
  <2>1. Undisturbed(v)
    BY <1>1, <1>2, <1>3, <1>6 DEF DomainsSound, Undisturbed
  <2>2. FileKept(job[v])
    BY <1>3 DEF FileKept
  <2>3. QED
    BY <1>1, <2>1, <2>2, StaysSound
<1>7. Ready(files, j, Todo(j))
  <2>1. IsJob(j) /\ j.image \in DOMAIN files /\ (Tree(j) => j.source \in DOMAIN files)
    BY <1>1, JobIs
  <2>2. files[j.image] # Absent /\ (Tree(j) => files[j.source] # Absent)
    BY <1>2 DEF Accepts, Tree
  <2>3. IsUFS(files[j.image]) /\ (Tree(j) => IsUFS(files[j.source]))
    BY <1>1, <2>1, <2>2 DEF FilesSound
  <2>4. j.op = "overlay" => Todo(j) = j.members
    BY DEF Todo
  <2>5. j.op = "replace_file" =>
          Todo(j) = <<[do |-> "swap", name |-> j.path, data |-> j.data, attr |-> "0444"]>>
    BY DEF Todo
  <2>6. ASSUME Tree(j)
        PROVE  LET n == Len(tree_inventory(files[j.source], j.from))
               IN /\ Plan(j, files[j.source], Todo(j))
                  /\ Len(Todo(j)) \in Nat /\ Len(Todo(j)) >= n
                  /\ j.op = "insert_tree" => Len(Todo(j)) = n + 1
    <3>1. Todo(j) = TreeList(j, files[j.image], files[j.source])
      BY <2>6 DEF Todo, TreeList, Tree
    <3>2. QED
      BY <2>6, <3>1, PlanFirst DEF Tree
  <2>7. QED
    BY <2>3, <2>4, <2>5, <2>6 DEF Ready
<1>8. WriterSound(w)'
  BY <1>3, <1>5, <1>7 DEF WriterSound
<1>9. QED
  BY <1>4, <1>6, <1>8 DEF ImageInv

LEMMA CopiedIsUnderway ==
  ASSUME NEW held, NEW j, IsJob(j), NEW list, Ready(held, j, list),
         NEW r, r.image = held[j.image], Tree(j) => r.source = held[j.source]
  PROVE  Underway(j, r, list, held[j.image])
<1>1. IsUFS(r.image)
  BY DEF Ready
<1>2. ASSUME j.op = "overlay" PROVE Overlaying(j, r.image, list, r.image)
  <2>1. list = j.members
    BY <1>2 DEF Ready
  <2>2. QED
    BY <1>1, <1>2, <2>1, OverlayingFirst
<1>3. ASSUME j.op = "replace_file" PROVE Swapping(j, r.image, list, r.image)
  BY <1>1, <1>3, SwappingFirst DEF Ready
<1>4. ASSUME Tree(j)
      PROVE  Plan(j, r.source, list) /\ Growing(j, r.image, r.source, list, r.image)
  <2>. DEFINE n == Len(tree_inventory(r.source, j.from))
  <2>1. /\ IsUFS(r.source) /\ Plan(j, r.source, list)
        /\ Len(list) \in Nat /\ Len(list) >= n
        /\ j.op = "insert_tree" => Len(list) = n + 1
    BY <1>4 DEF Ready
  <2>2. IsTarget(j)
    BY <1>4 DEF Tree, IsJob
  <2>3. Growing(j, r.image, r.source, list, r.image)
    BY <1>1, <2>1, <2>2, GrowingFirst
  <2>4. QED
    BY <2>1, <2>3
<1>5. QED
  BY <1>2, <1>3, <1>4 DEF Underway, Tree

LEMMA CopySound ==
  ASSUME ImageInv, NEW w \in Writers, copy(w)
  PROVE  ImageInv'
<1>. DEFINE j == job[w]
            r == [image |-> files[j.image], source |-> Source(j)]
<1>1. DomainsSound /\ FilesSound /\ \A v \in Writers : WriterSound(v)
  BY DEF ImageInv
<1>2. /\ at[w] = "copy" /\ at' = [at EXCEPT ![w] = "edit"]
      /\ working' = [working EXCEPT ![w] = files[j.image]]
      /\ read' = [read EXCEPT ![w] = r]
      /\ UNCHANGED <<files, job, todo>>
  BY DEF copy
<1>3. DomainsSound' /\ FilesSound'
  BY <1>1, <1>2 DEF DomainsSound, FilesSound
<1>4. at'[w] = "edit" /\ job'[w] = j /\ todo'[w] = todo[w] /\ working'[w] = files[j.image] /\ read'[w] = r
  BY <1>1, <1>2 DEF DomainsSound
<1>5. ASSUME NEW v \in Writers, v # w PROVE WriterSound(v)'
  <2>1. Undisturbed(v)
    BY <1>1, <1>2, <1>5 DEF DomainsSound, Undisturbed
  <2>2. FileKept(job[v])
    BY <1>2 DEF FileKept
  <2>3. QED
    BY <1>1, <2>1, <2>2, StaysSound
<1>6. j \in Jobs[w] /\ Ready(files, j, todo[w])
  BY <1>1, <1>2 DEF WriterSound
<1>7. IsJob(j)
  BY <1>1, <1>6, JobIs
<1>8. r.image = files[j.image] /\ (Tree(j) => r.source = files[j.source])
  BY DEF Source, Tree
<1>. HIDE DEF r
<1>9. Underway(j, r, todo[w], files[j.image])
  BY <1>6, <1>7, <1>8, CopiedIsUnderway
<1>10. WriterSound(w)'
  BY <1>2, <1>4, <1>6, <1>8, <1>9 DEF WriterSound
<1>11. QED
  BY <1>3, <1>5, <1>10 DEF ImageInv

LEMMA OnlyTreesInsert ==
  ASSUME NEW j, IsJob(j), NEW r, NEW list, list # << >>, NEW draft, Underway(j, r, list, draft)
  PROVE  Tree(j) \/ Head(list).do # "insert"
<1>1. CASE j.op = "overlay"
  BY <1>1, OverlayDoes DEF Underway
<1>2. CASE j.op = "replace_file"
  BY <1>2, SwapDoes DEF Underway
<1>3. QED
  BY <1>1, <1>2 DEF IsJob, Tree

LEMMA EditedIs ==
  ASSUME NEW w, NEW t, NEW source, Tree(job[w]) => source = files[job[w].source],
         Tree(job[w]) \/ t.do # "insert"
  PROVE  Edited(w, t) = EditOf(source, t, working[w])
BY DEF Edited, EditOf

LEMMA EditSound ==
  ASSUME ImageInv, NEW w \in Writers, edit(w)
  PROVE  ImageInv'
<1>. DEFINE j == job[w]
            r == read[w]
            t == Head(todo[w])
            after == Edited(w, t)
<1>1. DomainsSound /\ FilesSound /\ \A v \in Writers : WriterSound(v)
  BY DEF ImageInv
<1>2. /\ at[w] = "edit" /\ todo[w] # << >> /\ UNCHANGED <<files, job, read>>
  BY DEF edit
<1>3. \/ \E image \in after : /\ working' = [working EXCEPT ![w] = image]
                              /\ todo' = [todo EXCEPT ![w] = Tail(@)]
                              /\ UNCHANGED at
      \/ /\ at' = [at EXCEPT ![w] = IF after = {} THEN "refused" ELSE "failed"]
         /\ UNCHANGED <<todo, working>>
  BY DEF edit
<1>4. DomainsSound' /\ FilesSound'
  <2>. HIDE DEF after
  <2>1. QED
    BY <1>1, <1>2, <1>3 DEF DomainsSound, FilesSound
<1>5. ASSUME NEW v \in Writers, v # w PROVE WriterSound(v)'
  <2>. HIDE DEF after
  <2>1. Undisturbed(v)
    BY <1>1, <1>2, <1>3, <1>5 DEF DomainsSound, Undisturbed
  <2>2. FileKept(job[v])
    BY <1>2 DEF FileKept
  <2>3. QED
    BY <1>1, <2>1, <2>2, StaysSound
<1>6. /\ j \in Jobs[w] /\ Underway(j, r, todo[w], working[w])
      /\ Tree(j) => r.source = files[j.source]
  BY <1>1, <1>2 DEF WriterSound
<1>7. IsJob(j)
  BY <1>1, <1>6, JobIs
<1>8. CASE \E image \in after : /\ working' = [working EXCEPT ![w] = image]
                                /\ todo' = [todo EXCEPT ![w] = Tail(@)]
                                /\ UNCHANGED at
  <2>1. PICK image \in after : /\ working' = [working EXCEPT ![w] = image]
                               /\ todo' = [todo EXCEPT ![w] = Tail(@)]
                               /\ UNCHANGED at
    BY <1>8
  <2>2. working'[w] = image /\ todo'[w] = Tail(todo[w]) /\ at'[w] = "edit" /\ job'[w] = j /\ read'[w] = r
    BY <1>1, <1>2, <2>1 DEF DomainsSound
  <2>3. Tree(j) \/ t.do # "insert"
    BY <1>2, <1>6, <1>7, OnlyTreesInsert
  <2>4. image \in EditOf(r.source, t, working[w])
    BY <1>6, <2>3, EditedIs
  <2>5. Underway(j, r, Tail(todo[w]), image)
    BY <1>2, <1>6, <1>7, <2>4, UnderwayStep
  <2>6. QED
    BY <1>2, <1>4, <1>5, <1>6, <2>2, <2>5 DEF WriterSound, ImageInv
<1>9. CASE /\ at' = [at EXCEPT ![w] = IF after = {} THEN "refused" ELSE "failed"]
           /\ UNCHANGED <<todo, working>>
  <2>. HIDE DEF after
  <2>1. at'[w] \in {"refused", "failed"} /\ job'[w] = j
    BY <1>1, <1>2, <1>9 DEF DomainsSound
  <2>2. WriterSound(w)'
    BY <1>2, <1>6, <2>1 DEF WriterSound
  <2>3. QED
    BY <1>4, <1>5, <2>2 DEF ImageInv
<1>. HIDE DEF after
<1>10. QED
  BY <1>3, <1>8, <1>9

LEMMA VerifySound ==
  ASSUME ImageInv, NEW w \in Writers, verify(w)
  PROVE  ImageInv'
<1>1. DomainsSound /\ FilesSound /\ \A v \in Writers : WriterSound(v)
  BY DEF ImageInv
<1>2. /\ at[w] = "edit" /\ todo[w] = << >> /\ UNCHANGED <<files, job, todo, working, read>>
      /\ at' = [at EXCEPT ![w] = IF Passes(w) THEN "publish" ELSE "unverified"]
  BY DEF verify
<1>3. DomainsSound' /\ FilesSound'
  BY <1>1, <1>2 DEF DomainsSound, FilesSound
<1>4. ASSUME NEW v \in Writers, v # w PROVE WriterSound(v)'
  <2>1. Undisturbed(v)
    BY <1>1, <1>2, <1>4 DEF DomainsSound, Undisturbed
  <2>2. FileKept(job[v])
    BY <1>2 DEF FileKept
  <2>3. QED
    BY <1>1, <2>1, <2>2, StaysSound
<1>5. /\ at'[w] \in {"publish", "unverified"}
      /\ at'[w] = "publish" => Passed(job[w], read[w], working[w])
  BY <1>1, <1>2, PassedIs DEF DomainsSound
<1>6. /\ job[w] \in Jobs[w] /\ Underway(job[w], read[w], todo[w], working[w])
      /\ Tree(job[w]) => read[w].source = files[job[w].source]
  BY <1>1, <1>2 DEF WriterSound
<1>7. WriterSound(w)'
  BY <1>2, <1>5, <1>6 DEF WriterSound
<1>8. QED
  BY <1>3, <1>4, <1>7 DEF ImageInv

LEMMA PublishSound ==
  ASSUME ImageInv, NEW w \in Writers, publish(w)
  PROVE  ImageInv'
<1>. DEFINE j == job[w]
<1>1. DomainsSound /\ FilesSound /\ \A v \in Writers : WriterSound(v)
  BY DEF ImageInv
<1>2. /\ at[w] = "publish" /\ UNCHANGED <<job, todo, working, read>>
      /\ at' = [at EXCEPT ![w] = "done"]
      /\ files' = [files EXCEPT ![j.output] = working[w]]
  BY DEF publish
<1>3. /\ j \in Jobs[w] /\ Underway(j, read[w], todo[w], working[w])
      /\ todo[w] = << >> /\ Passed(j, read[w], working[w])
      /\ Tree(j) => read[w].source = files[j.source]
  BY <1>1, <1>2 DEF WriterSound
<1>4. IsUFS(working[w])
  BY <1>1, <1>3, JobIs, UnderwayIsUFS
<1>5. DomainsSound' /\ FilesSound'
  BY <1>1, <1>2, <1>4 DEF DomainsSound, FilesSound
<1>6. ASSUME NEW v \in Writers, at[v] # "idle" PROVE FileKept(job[v])
  <2>1. job[v] \in Jobs[v]
    BY <1>1, <1>6 DEF WriterSound
  <2>2. job[v].image \in DOMAIN files /\ (Tree(job[v]) => job[v].source \in DOMAIN files)
    BY <1>1, <2>1, JobIs
  <2>3. Tree(job[v]) => job[v].source # j.output
    BY <1>3, <2>1, ImageAssumption DEF Tree
  <2>4. QED
    BY <1>2, <1>4, <2>2, <2>3 DEF FileKept
<1>7. ASSUME NEW v \in Writers, v # w PROVE WriterSound(v)'
  <2>1. Undisturbed(v)
    BY <1>1, <1>2, <1>7 DEF DomainsSound, Undisturbed
  <2>2. QED
    BY <1>1, <1>6, <2>1, StaysSound
<1>8. at'[w] = "done" /\ (Tree(j) => files'[j.source] = files[j.source])
  BY <1>1, <1>2, <1>6 DEF DomainsSound, FileKept
<1>9. WriterSound(w)'
  BY <1>2, <1>3, <1>8 DEF WriterSound
<1>10. QED
  BY <1>5, <1>7, <1>9 DEF ImageInv

LEMMA KillSound ==
  ASSUME ImageInv, NEW w \in Writers, kill(w)
  PROVE  ImageInv'
<1>1. DomainsSound /\ FilesSound /\ \A v \in Writers : WriterSound(v)
  BY DEF ImageInv
<1>2. /\ at[w] \in {"copy", "edit", "publish"} /\ UNCHANGED <<files, job, todo, working, read>>
      /\ at' = [at EXCEPT ![w] = "killed"]
  BY DEF kill
<1>3. DomainsSound' /\ FilesSound'
  BY <1>1, <1>2 DEF DomainsSound, FilesSound
<1>4. ASSUME NEW v \in Writers, v # w PROVE WriterSound(v)'
  <2>1. Undisturbed(v)
    BY <1>1, <1>2, <1>4 DEF DomainsSound, Undisturbed
  <2>2. FileKept(job[v])
    BY <1>2 DEF FileKept
  <2>3. QED
    BY <1>1, <2>1, <2>2, StaysSound
<1>5. at'[w] = "killed" /\ job[w] \in Jobs[w]
  BY <1>1, <1>2 DEF DomainsSound, WriterSound
<1>6. WriterSound(w)'
  BY <1>2, <1>5 DEF WriterSound
<1>7. QED
  BY <1>3, <1>4, <1>6 DEF ImageInv

LEMMA IdleSound ==
  ASSUME ImageInv, UNCHANGED vars
  PROVE  ImageInv'
<1>1. DomainsSound /\ FilesSound /\ \A v \in Writers : WriterSound(v)
  BY DEF ImageInv
<1>2. UNCHANGED <<files, at, job, todo, working, read>>
  BY DEF vars
<1>3. \A v \in Writers : Undisturbed(v) /\ FileKept(job[v])
  BY <1>2 DEF Undisturbed, FileKept
<1>4. \A v \in Writers : WriterSound(v)'
  BY <1>1, <1>3, StaysSound
<1>5. DomainsSound' /\ FilesSound'
  BY <1>1, <1>2 DEF DomainsSound, FilesSound
<1>6. QED
  BY <1>4, <1>5 DEF ImageInv

LEMMA ImageInvHolds == Spec => []ImageInv
<1>1. ImageInv /\ [Next]_vars => ImageInv'
  BY StartSound, CopySound, EditSound, VerifySound, PublishSound, KillSound, IdleSound DEF Next
<1>2. QED
  BY ImageInvInit, <1>1, PTL DEF Spec

-----------------------------------------------------------------------------
(* Whatever fails, is killed or runs beside it, and whatever the archives, *)
(* the trees and the images hold: an image file changes only in one step,  *)
(* to what a writer with that output was asked to make of the image that   *)
(* it copied.                                                              *)
THEOREM OutputsAreWhole == Spec => OutputIsWhole
<1>1. ASSUME ImageInv, [Next]_vars, NEW f \in DOMAIN files, files'[f] # files[f]
      PROVE  \E w \in Writers : /\ at[w] = "publish" /\ job[w].output = f
                                /\ Matches(View(files'[f]), Meaning(job[w], read[w]))
  <2>1. PICK w \in Writers : publish(w)
    BY <1>1 DEF Next, vars, start, copy, edit, verify, kill
  <2>2. /\ at[w] = "publish" /\ files' = [files EXCEPT ![job[w].output] = working[w]]
    BY <2>1 DEF publish
  <2>3. f = job[w].output /\ files'[f] = working[w]
    BY <1>1, <2>2
  <2>4. FilesSound /\ WriterSound(w)
    BY <1>1 DEF ImageInv
  <2>5. /\ job[w] \in Jobs[w] /\ Underway(job[w], read[w], << >>, working[w])
        /\ Passed(job[w], read[w], working[w])
    BY <2>2, <2>4 DEF WriterSound
  <2>6. IsJob(job[w])
    BY <2>4, <2>5, JobIs
  <2>7. Matches(View(working[w]), Meaning(job[w], read[w]))
    BY <2>5, <2>6, PassedIsFound, UnderwayLast
  <2>8. QED
    BY <2>2, <2>3, <2>7
<1>2. ImageInv /\ [Next]_vars =>
        [\A f \in DOMAIN files : files'[f] # files[f] =>
           \E w \in Writers : /\ at[w] = "publish" /\ job[w].output = f
                              /\ Matches(View(files'[f]), Meaning(job[w], read[w]))]_vars
  BY <1>1
<1>3. QED
  BY ImageInvHolds, <1>2, PTL DEF Spec, OutputIsWhole

-----------------------------------------------------------------------------
(* What is wrong in an image that is done and found to be so was brought   *)
(* and not read back, or it was wrong in the image that was copied.        *)
Unread(j, r, draft) ==
  \A p \in DOMAIN draft.name : node(draft, p).data = "corrupt" =>
    /\ ~ReadBack(j, r, Provenance(j, r)[p])
    /\ Provenance(j, r)[p][1] = "base" => r.image.inode[Provenance(j, r)[p][2]].data = "corrupt"

TwinsAgree(origin, draft) ==
  \A p \in DOMAIN draft.name, q \in Paths : origin[q] = origin[p] => node(draft, q) = node(draft, p)

LEMMA OverlayIsRight ==
  ASSUME NEW j, NEW image, NEW n, n = Len(j.members), NEW origin, NEW draft,
         Partial(j.members, image, origin, n, draft)
  PROVE  /\ KeptRight(image, origin[n], draft)
         /\ TwinsAgree(origin[n], draft)
<1>. DEFINE O == OriginAt(origin, n)
            C == ContentAt(j.members, image, origin, n)
<1>1. Shows(draft, O, C)
  BY DEF Partial
<1>2. /\ \A p \in DOMAIN O : p \in Paths /\ O[p] = origin[n][p] /\ origin[n][p] # <<"none", 0>>
      /\ \A p \in Paths : origin[n][p] # <<"none", 0>> => p \in DOMAIN O
  BY DEF OriginAt
<1>3. \A p \in DOMAIN O : C[p].data = Content(j.members, image, origin, n, O[p]).data
  BY <1>2 DEF ContentAt
<1>4. BaseData(image, O, C)
  BY <1>3 DEF Content, BaseData
<1>. HIDE DEF O, C
<1>5. KeptRight(image, origin[n], draft)
  <2>. DEFINE from == origin[n]
  <2>1. Agree(O, from, DOMAIN O)
    BY <1>2 DEF Agree
  <2>. HIDE DEF from
  <2>2. KeptRight(image, from, draft)
    BY <1>1, <1>4, <2>1, BaseIsRight
  <2>3. QED
    BY <2>2 DEF from
<1>6. DOMAIN draft.name = DOMAIN O
  BY <1>1 DEF Shows
<1>7. ASSUME NEW p \in DOMAIN draft.name, NEW q \in Paths, origin[n][q] = origin[n][p]
      PROVE  node(draft, q) = node(draft, p)
  <2>1. p \in DOMAIN O /\ q \in DOMAIN O /\ O[p] = O[q]
    BY <1>2, <1>6, <1>7
  <2>2. draft.name[q] = draft.name[p]
    BY <1>1, <2>1 DEF Shows
  <2>3. QED
    BY <2>2 DEF node
<1>8. QED
  BY <1>5, <1>7 DEF TwinsAgree

(* A verified file is read back under all the names that it has.           *)
LEMMA OverlayIsUnread ==
  ASSUME NEW j, IsJob(j), j.op = "overlay", NEW r, NEW draft,
         Overlaying(j, r.image, << >>, draft), Passed(j, r, draft)
  PROVE  Unread(j, r, draft)
<1>. DEFINE n == Len(j.members)
            origin == Origin(j.members, r.image)
<1>1. n \in Nat /\ \A i \in 1..n : IsMember(j.members[i])
  BY JobMembers
<1>2. n - Len(<< >>) = n
  BY <1>1
<1>3. Partial(j.members, r.image, origin, n, draft)
  BY <1>2 DEF Overlaying
<1>4. Provenance(j, r) = origin[n]
  BY DEF Provenance
<1>. HIDE DEF origin, n
<1>5. /\ KeptRight(r.image, origin[n], draft)
      /\ TwinsAgree(origin[n], draft)
  <2>1. n = Len(j.members)
    BY DEF n
  <2>2. QED
    BY <1>3, <2>1, OverlayIsRight
<1>6. ASSUME NEW p \in DOMAIN draft.name, node(draft, p).data = "corrupt", ReadBack(j, r, origin[n][p])
      PROVE  FALSE
  <2>1. PICK v \in Verified : Expected(j.members, v) # {} /\ origin[n][v] = origin[n][p]
    BY <1>4, <1>6 DEF ReadBack
  <2>2. PICK i \in 1..n : j.members[i].name = v /\ j.members[i].data \in Expected(j.members, v)
    BY <2>1 DEF Expected, n
  <2>3. v \in Paths /\ j.members[i].data # "corrupt"
    BY <1>1, <2>2 DEF IsMember
  <2>4. node(draft, v).data = j.members[i].data
    BY <2>2 DEF Passed
  <2>5. node(draft, v) = node(draft, p)
    BY <1>5, <2>1, <2>3 DEF TwinsAgree
  <2>6. QED
    BY <1>6, <2>3, <2>4, <2>5
<1>7. QED
  BY <1>4, <1>5, <1>6 DEF Unread, KeptRight

LEMMA SwapIsUnread ==
  ASSUME NEW j, IsJob(j), j.op = "replace_file", NEW r, NEW draft,
         Swapping(j, r.image, << >>, draft), Passed(j, r, draft)
  PROVE  Unread(j, r, draft)
<1>. DEFINE O == SwapOrigin(j, r.image)
            W == SwapWhat(j, r.image)
<1>1. j.path \in DOMAIN r.image.name /\ Shows(draft, O, W)
  BY DEF Swapping
<1>2. /\ DOMAIN O = DOMAIN r.image.name
      /\ \A p \in DOMAIN O : O[p] = IF p = j.path THEN <<"new", 0>> ELSE <<"base", r.image.name[p]>>
  BY DEF SwapOrigin, Base
<1>3. Provenance(j, r) = O
  BY DEF Provenance, SwapOrigin
<1>4. ASSUME NEW p \in DOMAIN O, p # j.path
      PROVE  W[p].data = r.image.inode[O[p][2]].data /\ O[p] # <<"new", 0>>
  <2>1. O[p] = <<"base", r.image.name[p]>>
    BY <1>2, <1>4
  <2>2. O[p][2] = r.image.name[p] /\ O[p] # <<"new", 0>>
    BY <2>1
  <2>3. W[p] = r.image.inode[r.image.name[p]]
    BY <1>2, <1>4 DEF SwapWhat, node
  <2>4. QED
    BY <2>2, <2>3
<1>5. O[j.path][1] = "new"
  <2>1. O[j.path] = <<"new", 0>>
    BY <1>1, <1>2
  <2>2. QED
    BY <2>1
<1>6. BaseData(r.image, O, W) /\ Agree(O, O, DOMAIN O)
  BY <1>4, <1>5 DEF BaseData, Agree
<1>. HIDE DEF O, W
<1>7. KeptRight(r.image, O, draft) /\ DOMAIN draft.name = DOMAIN O
  <2>1. KeptRight(r.image, O, draft)
    BY <1>1, <1>6, BaseIsRight
  <2>2. QED
    BY <1>1, <2>1 DEF Shows
<1>8. node(draft, j.path).data # "corrupt"
  BY DEF Passed, IsJob
<1>9. \A p \in DOMAIN draft.name : node(draft, p).data = "corrupt" => ~ReadBack(j, r, O[p])
  BY <1>4, <1>7, <1>8 DEF ReadBack
<1>10. QED
  BY <1>3, <1>7, <1>9 DEF Unread, KeptRight

LEMMA TreeIsUnread ==
  ASSUME NEW j, IsJob(j), Tree(j), NEW r, NEW draft,
         Growing(j, r.image, r.source, << >>, draft), Passed(j, r, draft)
  PROVE  Unread(j, r, draft)
<1>1. j.op \in {"insert_tree", "replace_tree"} /\ j.root \in Paths /\ j.from \in Paths
  BY DEF IsJob, Tree
<1>2. Found(j, r, draft)
  BY PassedIsFound
<1>3. KeptRight(r.image, TreeFrom(j, r.image, r.source), draft)
  BY <1>1, <1>2, GrownMatches DEF Found
<1>4. Provenance(j, r) = TreeFrom(j, r.image, r.source)
  BY <1>1 DEF Provenance, TreeFrom
<1>5. \A o : ~ReadBack(j, r, o)
  BY <1>1 DEF ReadBack
<1>6. QED
  BY <1>3, <1>4, <1>5 DEF Unread, KeptRight

LEMMA DoneIsUnread ==
  ASSUME NEW j, IsJob(j), NEW r, NEW draft, Underway(j, r, << >>, draft), Passed(j, r, draft)
  PROVE  Unread(j, r, draft)
BY OverlayIsUnread, SwapIsUnread, TreeIsUnread DEF Underway, IsJob, Tree

(* What nextufs wrote wrongly without an error is published only where     *)
(* nobody read it back, for any images, jobs, writers and faults: edits    *)
(* leave the rest of an image as it was, and a verified file is right      *)
(* under its other names as well (ufs.py).                                 *)
THEOREM WrongOnesAreUnread == Spec => WrongFilesAreUnread
<1>1. ASSUME ImageInv, [Next]_vars, NEW f \in DOMAIN files, files'[f] # files[f]
      PROVE  \E w \in Writers :
               /\ at[w] = "publish" /\ job[w].output = f
               /\ \A p \in DOMAIN files'[f].name : node(files'[f], p).data = "corrupt" =>
                    LET o == Provenance(job[w], read[w])[p]
                    IN /\ ~ReadBack(job[w], read[w], o)
                       /\ o[1] = "base" => read[w].image.inode[o[2]].data = "corrupt"
  <2>1. PICK w \in Writers : publish(w)
    BY <1>1 DEF Next, vars, start, copy, edit, verify, kill
  <2>2. /\ at[w] = "publish" /\ files' = [files EXCEPT ![job[w].output] = working[w]]
    BY <2>1 DEF publish
  <2>3. f = job[w].output /\ files'[f] = working[w]
    BY <1>1, <2>2
  <2>4. FilesSound /\ WriterSound(w)
    BY <1>1 DEF ImageInv
  <2>5. /\ job[w] \in Jobs[w] /\ Underway(job[w], read[w], << >>, working[w])
        /\ Passed(job[w], read[w], working[w])
    BY <2>2, <2>4 DEF WriterSound
  <2>6. IsJob(job[w])
    BY <2>4, <2>5, JobIs
  <2>7. Unread(job[w], read[w], working[w])
    BY <2>5, <2>6, DoneIsUnread
  <2>8. QED
    BY <2>2, <2>3, <2>7 DEF Unread
<1>2. ImageInv /\ [Next]_vars =>
        [\A f \in DOMAIN files : files'[f] # files[f] =>
           \E w \in Writers :
             /\ at[w] = "publish" /\ job[w].output = f
             /\ \A p \in DOMAIN files'[f].name : node(files'[f], p).data = "corrupt" =>
                  LET o == Provenance(job[w], read[w])[p]
                  IN /\ ~ReadBack(job[w], read[w], o)
                     /\ o[1] = "base" => read[w].image.inode[o[2]].data = "corrupt"]_vars
  BY <1>1
<1>3. QED
  BY ImageInvHolds, <1>2, PTL DEF Spec, WrongFilesAreUnread

-----------------------------------------------------------------------------
(* What holds while nobody publishes to an image between the moment that a *)
(* writer looks at it and the moment that the writer copies it.            *)
Steady ==
  \A w \in Writers : at[w] = "copy" /\ at'[w] = "copy" => files'[job[w].image] = files[job[w].image]

(* The old nodes that are gone when list is still to be done.              *)
Gone(j, image, source, list) ==
  LET old == tree_inventory(image, j.root)
      n == Len(tree_inventory(source, j.from))
  IN {old[k] : k \in {i \in 1..Len(old) : i > Len(list) - n}}

(* Removals come first, one for each node of the old tree, from its end.   *)
Clears(j, image, source, list) ==
  LET old == tree_inventory(image, j.root)
      n == Len(tree_inventory(source, j.from))
  IN /\ Len(list) <= Len(old) + n
     /\ \A i \in 1..Len(list) :
          Len(list) - i >= n => list[i] = Removal(image, old[(Len(list) - i) - n + 1])

Clearing(j, image, source, list, draft) ==
  LET nodes == tree_inventory(source, j.from)
  IN /\ Plan(j, source, list) /\ Clears(j, image, source, list)
     /\ IsDirectory(image, j.root)
     /\ Planted(j, image, source, DOMAIN image.name \ Gone(j, image, source, list), {},
                {nodes[i] : i \in 1..(Len(nodes) - Len(list))}, draft)

LEMMA RemovalsClear ==
  ASSUME NEW j, j.op = "replace_tree", NEW image, NEW source,
         NEW list, list = TreeList(j, image, source)
  PROVE  /\ Clears(j, image, source, list) /\ Gone(j, image, source, list) = {}
<1>. DEFINE old == tree_inventory(image, j.root)
            n == Len(tree_inventory(source, j.from))
            m == Len(old)
            first == Removals(image, j.root)
            then == Insertions(source, j.from, j.target)
<1>1. /\ IsList(first) /\ Len(first) = m /\ m \in Nat
      /\ \A i \in 1..m : first[i] = Removal(image, old[m + 1 - i])
  BY RemovalsAre
<1>2. IsList(then) /\ Len(then) = n /\ n \in Nat
  BY InsertionsAre
<1>3. list = first \o then
  BY DEF TreeList
<1>. HIDE DEF first, then
<1>4. Joins(first, then, list)
  BY <1>1, <1>2, <1>3, JoinFacts
<1>. HIDE DEF n, m, old
<1>5. Len(list) = m + n /\ \A i \in 1..m : list[i] = first[i]
  BY <1>1, <1>2, <1>4 DEF Joins
<1>6. ASSUME NEW i \in 1..Len(list), Len(list) - i >= n
      PROVE  list[i] = Removal(image, old[(Len(list) - i) - n + 1])
  <2>1. i \in 1..m /\ (Len(list) - i) - n + 1 = m + 1 - i
    BY <1>1, <1>2, <1>5, <1>6
  <2>2. QED
    BY <1>1, <1>5, <2>1
<1>7. Clears(j, image, source, list)
  BY <1>1, <1>2, <1>5, <1>6 DEF Clears, old, n, m
<1>8. {i \in 1..m : i > Len(list) - n} = {}
  BY <1>1, <1>2, <1>5
<1>9. Gone(j, image, source, list) = {}
  BY <1>8 DEF Gone, old, n, m
<1>10. QED
  BY <1>7, <1>9

LEMMA ClearingFirst ==
  ASSUME NEW j, j.op = "replace_tree", IsTarget(j), NEW image, IsUFS(image),
         NEW source, IsUFS(source), IsDirectory(image, j.root),
         NEW list, list = TreeList(j, image, source)
  PROVE  Clearing(j, image, source, list, image)
<1>. DEFINE nodes == tree_inventory(source, j.from)
            n == Len(nodes)
<1>1. Clears(j, image, source, list) /\ Gone(j, image, source, list) = {}
  BY RemovalsClear
<1>2. Planted(j, image, source, DOMAIN image.name, {}, {}, image)
  BY PlantedFirst
<1>. HIDE DEF n
<1>3. Plan(j, source, list) /\ Len(list) \in Nat /\ n \in Nat /\ Len(list) >= n
  <2>1. Begins(j, source, list)
    BY PlanBegins
  <2>2. QED
    BY <2>1 DEF Begins, n
<1>. HIDE DEF nodes
<1>4. 1..(n - Len(list)) = {}
  BY <1>3
<1>5. /\ {nodes[i] : i \in 1..(n - Len(list))} = {}
      /\ DOMAIN image.name \ Gone(j, image, source, list) = DOMAIN image.name
  BY <1>1, <1>4
<1>6. Planted(j, image, source, DOMAIN image.name \ Gone(j, image, source, list), {},
              {nodes[i] : i \in 1..(n - Len(list))}, image)
  BY <1>2, <1>5
<1>7. QED
  BY <1>1, <1>3, <1>6 DEF Clearing, nodes, n

LEMMA ClearsTail ==
  ASSUME NEW j, NEW image, NEW source, NEW list, IsList(list), list # << >>,
         Clears(j, image, source, list)
  PROVE  Clears(j, image, source, Tail(list))
<1>. DEFINE old == tree_inventory(image, j.root)
            n == Len(tree_inventory(source, j.from))
            m == Len(old)
            l == Len(list)
            t == Len(Tail(list))
<1>1. /\ l \in Nat /\ l > 0 /\ t = l - 1
      /\ \A i \in 1..t : Tail(list)[i] = list[i + 1]
  BY ListFacts
<1>2. m \in Nat /\ n \in Nat
  BY InventoryFacts
<1>3. /\ l <= m + n
      /\ \A i \in 1..l : l - i >= n => list[i] = Removal(image, old[(l - i) - n + 1])
  BY DEF Clears
<1>. HIDE DEF old, n, m, l, t
<1>4. t <= m + n
  BY <1>1, <1>2, <1>3
<1>5. ASSUME NEW i \in 1..t, t - i >= n
      PROVE  Tail(list)[i] = Removal(image, old[(t - i) - n + 1])
  <2>1. i + 1 \in 1..l /\ l - (i + 1) = t - i
    BY <1>1
  <2>2. list[i + 1] = Removal(image, old[(l - (i + 1)) - n + 1])
    BY <1>3, <1>5, <2>1
  <2>3. QED
    BY <1>1, <2>1, <2>2
<1>6. QED
  BY <1>4, <1>5 DEF Clears, old, n, m, t

(* The head of such a list: a node of the old tree, or one of the source.  *)
LEMMA ClearsHead ==
  ASSUME NEW j, NEW image, NEW source, NEW list, IsList(list), list # << >>,
         Clears(j, image, source, list),
         NEW old, old = tree_inventory(image, j.root),
         NEW n, n = Len(tree_inventory(source, j.from))
  PROVE  Len(list) > n =>
           /\ Len(list) - n \in 1..Len(old) /\ Head(list) = Removal(image, old[Len(list) - n])
           /\ Gone(j, image, source, Tail(list)) =
                Gone(j, image, source, list) \cup {old[Len(list) - n]}
<1>. DEFINE m == Len(old)
            l == Len(list)
            Some(k) == {i \in 1..m : i > k - n}
<1>1. l \in Nat /\ l > 0 /\ Len(Tail(list)) = l - 1 /\ Head(list) = list[1]
  BY ListFacts
<1>2. m \in Nat /\ n \in Nat
  BY InventoryFacts
<1>3. /\ l <= m + n
      /\ \A i \in 1..l : l - i >= n => list[i] = Removal(image, old[(l - i) - n + 1])
  BY DEF Clears
<1>4. /\ Gone(j, image, source, list) = {old[k] : k \in Some(l)}
      /\ Gone(j, image, source, Tail(list)) = {old[k] : k \in Some(l - 1)}
  BY <1>1 DEF Gone
<1>. HIDE DEF m, l
<1>5. SUFFICES ASSUME l > n
               PROVE  /\ l - n \in 1..m /\ Head(list) = Removal(image, old[l - n])
                      /\ Gone(j, image, source, Tail(list)) =
                           Gone(j, image, source, list) \cup {old[l - n]}
  BY DEF m, l
<1>6. l - n \in 1..m /\ 1 \in 1..l /\ l - 1 >= n /\ (l - 1) - n + 1 = l - n
  BY <1>1, <1>2, <1>3, <1>5
<1>7. Head(list) = Removal(image, old[l - n])
  BY <1>1, <1>3, <1>6
<1>8. Some(l - 1) = Some(l) \cup {l - n}
  BY <1>1, <1>2, <1>6
<1>9. {old[k] : k \in Some(l) \cup {l - n}} = {old[k] : k \in Some(l)} \cup {old[l - n]}
  OBVIOUS
<1>10. QED
  BY <1>4, <1>6, <1>7, <1>8, <1>9

LEMMA ClearingStep ==
  ASSUME NEW j, j.op = "replace_tree", NEW image, NEW source, NEW list, list # << >>,
         NEW draft, Clearing(j, image, source, list, draft),
         NEW new \in TreeStep(source, Head(list), draft)
  PROVE  Clearing(j, image, source, Tail(list), new)
<1>. DEFINE nodes == tree_inventory(source, j.from)
            old == tree_inventory(image, j.root)
            n == Len(nodes)
            l == Len(list)
            t == Head(list)
            kept(x) == DOMAIN image.name \ Gone(j, image, source, x)
            in(k) == {nodes[i] : i \in 1..(n - k)}
<1>1. /\ Plan(j, source, list) /\ Clears(j, image, source, list) /\ IsDirectory(image, j.root)
      /\ Planted(j, image, source, kept(list), {}, in(l), draft)
  BY DEF Clearing
<1>2. /\ l \in Nat /\ l > 0 /\ n \in Nat
      /\ l <= n => /\ (n - l) + 1 \in 1..n
                   /\ t = [do |-> "insert", name |-> j.target[nodes[(n - l) + 1]], from |-> nodes[(n - l) + 1]]
  BY <1>1, PlanHead
<1>3. Len(Tail(list)) = l - 1 /\ IsList(list)
  BY <1>1, ListFacts DEF Plan
<1>4. Plan(j, source, Tail(list)) /\ Clears(j, image, source, Tail(list))
  BY <1>1, <1>3, PlanTail, ClearsTail
<1>5. /\ {nodes[i] : i \in 1..n} = Below(j.from) \cap DOMAIN source.name
      /\ \A a, b \in 1..n : nodes[a] = nodes[b] => a = b
  BY ONLY InventoryFacts
<1>6. /\ new \in TreeStep(source, t, draft)
      /\ t.do = "rmdir" => TreeStep(source, t, draft) = rmdir(draft, t.name)
      /\ t.do = "unlink" => TreeStep(source, t, draft) = unlink(draft, t.name)
      /\ t.do = "insert" => TreeStep(source, t, draft) = inserted(draft, source, t.name, t.from)
  BY DEF TreeStep
<1>7. l > n => /\ l - n \in 1..Len(old) /\ t = Removal(image, old[l - n])
               /\ Gone(j, image, source, Tail(list)) = Gone(j, image, source, list) \cup {old[l - n]}
  BY <1>1, <1>3, ClearsHead
<1>8. l <= n => Gone(j, image, source, Tail(list)) = Gone(j, image, source, list)
  <2>. HIDE DEF n, l
  <2>1. ASSUME l <= n
        PROVE  {i \in 1..Len(old) : i > (l - 1) - n} = {i \in 1..Len(old) : i > l - n}
    BY <1>2, <2>1
  <2>2. /\ Gone(j, image, source, list) = {old[k] : k \in {i \in 1..Len(old) : i > l - n}}
        /\ Gone(j, image, source, Tail(list)) = {old[k] : k \in {i \in 1..Len(old) : i > (l - 1) - n}}
    BY <1>3 DEF Gone, n, l
  <2>3. QED
    BY <2>1, <2>2
<1>. HIDE DEF nodes, n, l, t, old
<1>9. SUFFICES Planted(j, image, source, kept(Tail(list)), {}, in(l - 1), new)
  BY <1>1, <1>3, <1>4 DEF Clearing, nodes, n
<1>10. CASE l <= n
  <2>. DEFINE q == nodes[(n - l) + 1]
  <2>1. /\ (n - l) + 1 \in 1..n /\ t = [do |-> "insert", name |-> j.target[q], from |-> q]
    BY <1>2, <1>10
  <2>2. t.do = "insert" /\ t.name = j.target[q] /\ t.from = q
    BY <2>1
  <2>3. q \in Below(j.from) \cap DOMAIN source.name
    BY <1>5, <2>1
  <2>4. q \notin in(l)
    BY <1>2, <1>5, <1>10
  <2>5. in(l - 1) = in(l) \cup {q}
    <3>1. 1..(n - (l - 1)) = 1..(n - l) \cup {(n - l) + 1}
      BY <1>2, <1>10
    <3>2. QED
      BY <3>1
  <2>6. new \in inserted(draft, source, j.target[q], q)
    BY <1>6, <2>2
  <2>7. kept(Tail(list)) = kept(list)
    BY <1>8, <1>10
  <2>. HIDE DEF q, in, kept
  <2>8. Planted(j, image, source, kept(list), {}, in(l) \cup {q}, new)
    BY <1>1, <2>3, <2>4, <2>6, PlantedInserts
  <2>9. QED
    BY <2>5, <2>7, <2>8
<1>11. CASE l > n
  <2>1. 1..(n - l) = {} /\ 1..(n - (l - 1)) = {}
    BY <1>2, <1>11
  <2>2. in(l) = {} /\ in(l - 1) = {}
    BY <2>1
  <2>3. t.do \in {"rmdir", "unlink"} /\ t.name = old[l - n]
    BY <1>7, <1>11 DEF Removal
  <2>4. new \in rmdir(draft, t.name) \cup unlink(draft, t.name)
    BY <1>6, <2>3
  <2>5. kept(Tail(list)) = kept(list) \ {t.name}
    BY <1>7, <1>11, <2>3
  <2>. HIDE DEF in, kept
  <2>6. Planted(j, image, source, kept(list) \ {t.name}, {}, {}, new)
    BY <1>1, <2>2, <2>4, PlantedRemoves
  <2>7. QED
    BY <2>2, <2>5, <2>6
<1>. HIDE DEF in, kept
<1>12. QED
  BY <1>2, <1>10, <1>11

(* When it is done, below the root there is what the writer compares with. *)
LEMMA ClearedIsFound ==
  ASSUME NEW j, j.op = "replace_tree", j.root \in Paths, j.from \in Paths,
         NEW image, NEW r, NEW draft, Clearing(j, image, r.source, << >>, draft)
  PROVE  Found(j, r, draft)
<1>. DEFINE source == r.source
            nodes == tree_inventory(source, j.from)
            old == tree_inventory(image, j.root)
            n == Len(nodes)
            from == Below(j.from) \cap DOMAIN source.name
            gone == Gone(j, image, source, << >>)
<1>1. n \in Nat /\ {nodes[i] : i \in 1..n} = from
  BY InventoryFacts
<1>2. Len(old) \in Nat /\ {old[k] : k \in 1..Len(old)} = Below(j.root) \cap DOMAIN image.name
  BY InventoryFacts
<1>3. Len(<< >>) = 0
  OBVIOUS
<1>4. /\ gone = {old[k] : k \in {i \in 1..Len(old) : i > Len(<< >>) - n}}
      /\ IsDirectory(image, j.root)
      /\ Planted(j, image, source, DOMAIN image.name \ gone, {},
                 {nodes[i] : i \in 1..(n - Len(<< >>))}, draft)
  BY DEF Clearing, Gone
<1>. HIDE DEF nodes, n, old, gone
<1>5. n - 0 = n /\ {i \in 1..Len(old) : i > 0 - n} = 1..Len(old)
  BY <1>1, <1>2
<1>6. gone = Below(j.root) \cap DOMAIN image.name
  BY <1>2, <1>3, <1>4, <1>5
<1>7. Planted(j, image, source, DOMAIN image.name \ gone, {}, from, draft)
  BY <1>1, <1>3, <1>4, <1>5
<1>8. DOMAIN draft.name = (DOMAIN image.name \ gone) \cup {} \cup Placed(j, from)
  BY <1>7, PlantedFacts
<1>9. Placed(j, from) \subseteq Below(j.root)
  BY <1>7, TargetIsBelow DEF Planted, Apart, Placed
<1>10. Below(j.root) \cap DOMAIN draft.name = Placed(j, from)
  BY <1>6, <1>8, <1>9
<1>11. j.root \in DOMAIN draft.name
  BY <1>4, <1>6, <1>8, NotBelowItself DEF IsDirectory, Exists
<1>12. QED
  BY <1>10, <1>11 DEF Found, Exists

Counts(list, n, S) ==
  /\ S = {list[i] : i \in 1..n}
  /\ \A i, k \in 1..n : list[i] = list[k] => i = k

LEMMA CountedOnce ==
  ASSUME NEW list, NEW n \in Nat, NEW S, Counts(list, n, S)
  PROVE  Cardinality(S) = n
<1>. DEFINE f == [i \in 1..n |-> list[i]]
<1>1. S = {list[i] : i \in 1..n} /\ \A i, k \in 1..n : list[i] = list[k] => i = k
  BY DEF Counts
<1>2. f \in [1..n -> S]
  BY <1>1
<1>3. \A i, k \in 1..n : f[i] = f[k] => i = k
  BY <1>1
<1>4. \A s \in S : \E i \in 1..n : f[i] = s
  BY <1>1
<1>. HIDE DEF f
<1>5. f \in Bijection(1..n, S)
  BY <1>2, <1>3, <1>4 DEF Bijection, Injection, Surjection, IsInjective
<1>6. QED
  BY <1>5, FS_CountingElements DEF ExistsBijection

(* A tree that is inserted has as many nodes as the source's.              *)
LEMMA InsertedIsComplete ==
  ASSUME NEW j, j.op = "insert_tree", j.root \in Paths, j.from \in Paths, NEW image, NEW source,
         NEW draft, Growing(j, image, source, << >>, draft)
  PROVE  Len(tree_inventory(draft, j.root)) = Len(tree_inventory(source, j.from))
<1>. DEFINE nodes == tree_inventory(source, j.from)
            there == tree_inventory(draft, j.root)
            n == Len(nodes)
            m == Len(there)
            from == Below(j.from) \cap DOMAIN source.name
            placed == [i \in 1..n |-> j.target[nodes[i]]]
<1>1. /\ n \in Nat /\ {nodes[i] : i \in 1..n} = from
      /\ \A a, b \in 1..n : nodes[a] = nodes[b] => a = b
  BY InventoryFacts
<1>2. /\ m \in Nat /\ {there[i] : i \in 1..m} = Below(j.root) \cap DOMAIN draft.name
      /\ \A a, b \in 1..m : there[a] = there[b] => a = b
  BY InventoryFacts
<1>3. PICK kept :
       /\ Planted(j, image, source, kept,
                  IF j.op = "insert_tree" /\ Len(<< >>) <= n THEN {j.root} ELSE {},
                  {nodes[i] : i \in 1..(n - Len(<< >>))}, draft)
       /\ j.op = "insert_tree" =>
            /\ kept = DOMAIN image.name
            /\ Len(<< >>) <= n => j.root \notin DOMAIN image.name
  BY DEF Growing
<1>4. Len(<< >>) = 0
  OBVIOUS
<1>. HIDE DEF nodes, there, n, m
<1>5. 0 <= n /\ n - 0 = n
  BY <1>1
<1>6. /\ Planted(j, image, source, DOMAIN image.name, {j.root}, from, draft)
      /\ j.root \notin DOMAIN image.name
  BY <1>1, <1>3, <1>4, <1>5
<1>7. DOMAIN draft.name = DOMAIN image.name \cup {j.root} \cup Placed(j, from)
  BY <1>6, PlantedFacts
<1>8. IsTarget(j) /\ IsUFS(image)
  BY <1>6 DEF Planted, Apart
<1>9. DOMAIN image.name \cap Below(j.root) = {} /\ j.root \notin Below(j.root)
  BY <1>6, <1>8, NothingBelow, NotBelowItself
<1>10. Placed(j, from) \subseteq Below(j.root)
  BY <1>8, TargetIsBelow DEF Placed
<1>11. Below(j.root) \cap DOMAIN draft.name = Placed(j, from)
  BY <1>7, <1>9, <1>10
<1>12. Counts(there, m, Placed(j, from))
  BY <1>2, <1>11 DEF Counts
<1>13. Counts(placed, n, Placed(j, from))
  <2>1. \A i \in 1..n : placed[i] = j.target[nodes[i]] /\ nodes[i] \in from
    BY <1>1
  <2>. HIDE DEF placed
  <2>2. Placed(j, from) = {placed[i] : i \in 1..n}
    BY <1>1, <2>1 DEF Placed
  <2>3. ASSUME NEW i \in 1..n, NEW k \in 1..n, placed[i] = placed[k] PROVE i = k
    <3>1. nodes[i] \in Below(j.from) /\ nodes[k] \in Below(j.from)
      BY <2>1
    <3>2. j.target[nodes[i]] = j.target[nodes[k]]
      BY <2>1, <2>3
    <3>3. nodes[i] = nodes[k]
      BY <1>8, <3>1, <3>2 DEF IsTarget
    <3>4. QED
      BY <1>1, <3>3
  <2>4. QED
    BY <2>2, <2>3 DEF Counts
<1>14. n = m
  BY <1>1, <1>2, <1>12, <1>13, CountedOnce
<1>15. QED
  BY <1>14 DEF n, m, nodes, there

-----------------------------------------------------------------------------
(* When a step is not refused.                                             *)
Kind(image, p) == IF Exists(image, p) THEN node(image, p).kind ELSE "none"

HasRoom(image, p) == Parent[p] = "/" \/ Kind(image, Parent[p]) = "directory"

LEMMA KindFacts ==
  ASSUME NEW image, IsUFS(image), NEW p
  PROVE  /\ Kind(image, p) = "none" <=> ~Exists(image, p)
         /\ Kind(image, p) = "directory" <=> IsDirectory(image, p)
         /\ Free(image, p) <=> Kind(image, p) = "none" /\ HasRoom(image, p)
<1>1. Exists(image, p) => IsNode(node(image, p))
  BY ImageFacts DEF IsUFS, Exists
<1>2. Exists(image, p) => node(image, p).kind \in Kinds
  BY <1>1 DEF IsNode, IsKind
<1>3. Kind(image, p) = "none" <=> ~Exists(image, p)
  BY <1>2 DEF Kind, Kinds
<1>4. \A q : Kind(image, q) = "directory" <=> IsDirectory(image, q)
  BY DEF Kind, IsDirectory
<1>5. QED
  BY <1>3, <1>4 DEF Free, HasRoom

LEMMA FileFits ==
  ASSUME NEW image, IsUFS(image), NEW p \in Paths, Free(image, p), NEW data, NEW attr
  PROVE  \E mid \in from_file(image, p, data) : chmod(mid, p, attr) # {}
<1>. DEFINE mid == New(image, p, "file", data)
<1>1. mid \in from_file(image, p, data)
  BY DEF from_file
<1>2. IsKind("file", data)
  BY DEF IsKind, Kinds
<1>. HIDE DEF mid
<1>3. p \in DOMAIN mid.name
  <2>1. mid = New(image, p, "file", data)
    BY DEF mid
  <2>2. DOMAIN mid.name = DOMAIN image.name \cup {p}
    BY <1>2, <2>1, NewFacts DEF IsUFS
  <2>3. QED
    BY <2>2
<1>4. chmod(mid, p, attr) # {}
  BY <1>3 DEF chmod, Exists
<1>5. QED
  BY <1>1, <1>4

LEMMA DirectoryFits ==
  ASSUME NEW image, IsUFS(image), NEW p \in Paths, Free(image, p), NEW attr
  PROVE  \E mid \in mkdir(image, p) : chmod(mid, p, attr) # {}
<1>. DEFINE mid == New(image, p, "directory", "none")
<1>1. mid \in mkdir(image, p)
  BY DEF mkdir
<1>2. IsKind("directory", "none")
  BY DEF IsKind, Kinds
<1>. HIDE DEF mid
<1>3. p \in DOMAIN mid.name
  <2>1. mid = New(image, p, "directory", "none")
    BY DEF mid
  <2>2. DOMAIN mid.name = DOMAIN image.name \cup {p}
    BY <1>2, <2>1, NewFacts DEF IsUFS
  <2>3. QED
    BY <2>2
<1>4. chmod(mid, p, attr) # {}
  BY <1>3 DEF chmod, Exists
<1>5. QED
  BY <1>1, <1>4

LEMMA SymlinkFits ==
  ASSUME NEW image, IsUFS(image), NEW p \in Paths, Free(image, p), NEW data, NEW attr
  PROVE  \E mid \in symlink(image, data, p) : chmod(mid, p, attr) # {}
<1>. DEFINE mid == New(image, p, "symlink", data)
<1>1. mid \in symlink(image, data, p)
  BY DEF symlink
<1>2. IsKind("symlink", data)
  BY DEF IsKind, Kinds
<1>. HIDE DEF mid
<1>3. p \in DOMAIN mid.name
  <2>1. mid = New(image, p, "symlink", data)
    BY DEF mid
  <2>2. DOMAIN mid.name = DOMAIN image.name \cup {p}
    BY <1>2, <2>1, NewFacts DEF IsUFS
  <2>3. QED
    BY <2>2
<1>4. chmod(mid, p, attr) # {}
  BY <1>3 DEF chmod, Exists
<1>5. QED
  BY <1>1, <1>4

LEMMA LinkFits ==
  ASSUME NEW image, NEW p, Free(image, p), NEW s, Exists(image, s), ~IsDirectory(image, s), NEW attr
  PROVE  \E mid \in link(image, s, p) : chmod(mid, p, attr) # {}
<1>. DEFINE mid == Named(image, p, image.name[s])
<1>1. mid \in link(image, s, p)
  BY DEF link
<1>2. p \in DOMAIN mid.name
  BY DEF Named, Image
<1>. HIDE DEF mid
<1>3. chmod(mid, p, attr) # {}
  BY <1>2 DEF chmod, Exists
<1>4. QED
  BY <1>1, <1>3

(* What is in the way is taken away, and there is room for another.        *)
LEMMA ClearFits ==
  ASSUME NEW image, IsUFS(image), NEW p \in Paths, Kind(image, p) # "directory", HasRoom(image, p)
  PROVE  \E mid \in Cleared(image, p) :
           /\ IsUFS(mid) /\ Free(mid, p)
           /\ \A q : q # p => Kind(mid, q) = Kind(image, q)
<1>1. CASE ~Exists(image, p)
  <2>1. image \in Cleared(image, p)
    BY <1>1 DEF Cleared
  <2>2. Free(image, p)
    BY <1>1, KindFacts
  <2>3. QED
    BY <2>1, <2>2
<1>2. CASE Exists(image, p)
  <2>. DEFINE mid == Unnamed(image, p)
  <2>1. ~IsDirectory(image, p)
    BY <1>2, KindFacts
  <2>2. mid \in unlink(image, p)
    BY <1>2, <2>1 DEF unlink
  <2>3. IsUFS(mid)
    BY <2>2, UnlinkIsUFS
  <2>4. mid = Unnamed(image, p)
    OBVIOUS
  <2>. HIDE DEF mid
  <2>5. /\ DOMAIN mid.name = DOMAIN image.name \ {p}
        /\ \A q \in DOMAIN mid.name : node(mid, q) = node(image, q)
    BY <2>4, UnnamedFacts DEF IsUFS
  <2>6. \A q : q # p => Kind(mid, q) = Kind(image, q)
    BY <2>5 DEF Kind, Exists
  <2>7. Kind(mid, p) = "none"
    BY <2>5 DEF Kind, Exists
  <2>8. Parent[p] # p
    BY OrderFacts, PathAssumption
  <2>9. HasRoom(mid, p)
    BY <2>6, <2>8 DEF HasRoom
  <2>10. Free(mid, p)
    BY <2>3, <2>7, <2>9, KindFacts
  <2>11. mid \in Cleared(image, p)
    BY <1>2, <2>2 DEF Cleared
  <2>12. QED
    BY <2>3, <2>6, <2>10, <2>11
<1>3. QED
  BY <1>1, <1>2

LEMMA SwapFits ==
  ASSUME NEW image, IsUFS(image), NEW t, t.name \in Paths,
         Exists(image, t.name), ~IsDirectory(image, t.name)
  PROVE  swapped(image, t) # {}
<1>. DEFINE p == t.name
<1>1. HasRoom(image, p) /\ Kind(image, p) # "directory"
  BY KindFacts DEF IsUFS, IsTree, HasRoom, Exists
<1>2. PICK i \in Cleared(image, p) : IsUFS(i) /\ Free(i, p)
  BY <1>1, ClearFits
<1>3. i \in unlink(image, p)
  BY <1>2 DEF Cleared
<1>4. PICK mid \in from_file(i, p, t.data) : chmod(mid, p, t.attr) # {}
  BY <1>2, FileFits
<1>5. QED
  BY <1>3, <1>4 DEF swapped

LEMMA InsertedFits ==
  ASSUME NEW image, IsUFS(image), NEW source, NEW p \in Paths, NEW q, Free(image, p),
         IsNode(node(source, q)), node(source, q).kind # "symlink"
  PROVE  inserted(image, source, p, q) # {}
<1>. DEFINE n == node(source, q)
<1>1. n.kind \in {"directory", "file"}
  BY DEF IsNode, IsKind, Kinds
<1>. HIDE DEF n
<1>2. CASE n.kind = "directory"
  <2>1. PICK mid \in mkdir(image, p) : chmod(mid, p, n.attr) # {}
    BY DirectoryFits
  <2>2. QED
    BY <1>2, <2>1 DEF inserted, n
<1>3. CASE n.kind = "file"
  <2>1. PICK mid \in from_file(image, p, n.data) : chmod(mid, p, n.attr) # {}
    BY FileFits
  <2>2. QED
    BY <1>3, <2>1 DEF inserted, n
<1>4. QED
  BY <1>1, <1>2, <1>3

LEMMA PlantedKinds ==
  ASSUME NEW j, NEW image, NEW source, NEW kept, NEW fresh, NEW nodes, NEW draft,
         Planted(j, image, source, kept, fresh, nodes, draft)
  PROVE  /\ \A p \in kept : Exists(image, p) /\ Kind(draft, p) = Kind(image, p)
         /\ \A p \in fresh : Kind(draft, p) = "directory"
         /\ \A q \in nodes : Kind(draft, j.target[q]) = node(source, q).kind
<1>. DEFINE O == TreeOrigin(j, image, kept, fresh, nodes)
            W == TreeWhat(j, image, source, kept, fresh, nodes)
<1>1. /\ Apart(j, image, source, kept, fresh, nodes) /\ Shows(draft, O, W)
      /\ kept \subseteq DOMAIN image.name
  BY DEF Planted, Apart
<1>2. TreeRows(j, image, source, kept, fresh, nodes, O, W)
  BY <1>1, TreeRowsAre
<1>. HIDE DEF O, W
<1>3. ASSUME NEW p \in DOMAIN O PROVE Kind(draft, p) = W[p].kind
  <2>1. p \in DOMAIN draft.name /\ node(draft, p) \in Written(W[p])
    BY <1>1 DEF Shows
  <2>2. node(draft, p).kind = W[p].kind
    BY <2>1 DEF Written
  <2>3. QED
    BY <2>1, <2>2 DEF Kind, Exists
<1>4. ASSUME NEW p \in kept PROVE Exists(image, p) /\ Kind(draft, p) = Kind(image, p)
  <2>1. p \in DOMAIN O /\ W[p] = node(image, p)
    BY <1>2 DEF TreeRows
  <2>2. QED
    BY <1>1, <1>3, <2>1 DEF Kind, Exists
<1>5. ASSUME NEW p \in fresh PROVE Kind(draft, p) = "directory"
  <2>1. p \in DOMAIN O /\ W[p] = NewRoot
    BY <1>2 DEF TreeRows
  <2>2. QED
    BY <1>3, <2>1 DEF NewRoot
<1>6. ASSUME NEW q \in nodes PROVE Kind(draft, j.target[q]) = node(source, q).kind
  <2>1. j.target[q] \in DOMAIN O /\ W[j.target[q]] = node(source, q)
    BY <1>2 DEF TreeRows, Placed
  <2>2. QED
    BY <1>3, <2>1
<1>7. QED
  BY <1>4, <1>5, <1>6

(* The list has directories before what is in them.                        *)
LEMMA ParentsFirst ==
  ASSUME NEW source, IsUFS(source), NEW root, NEW nodes, nodes = tree_inventory(source, root),
         NEW k \in 1..Len(nodes), Parent[nodes[k]] # root
  PROVE  /\ \E i \in 1..(k - 1) : nodes[i] = Parent[nodes[k]]
         /\ Parent[nodes[k]] \in Below(root) /\ IsDirectory(source, Parent[nodes[k]])
<1>. DEFINE q == nodes[k]
            up == Parent[q]
<1>1. /\ Len(nodes) \in Nat /\ Rising(nodes)
      /\ {nodes[i] : i \in 1..Len(nodes)} = Below(root) \cap DOMAIN source.name
  BY ONLY InventoryFacts, nodes = tree_inventory(source, root)
<1>. HIDE DEF q, up
<1>2. q \in Below(root) /\ q \in DOMAIN source.name /\ q \in Paths
  BY <1>1, BelowFacts DEF q
<1>3. up \in Below(root) /\ up \in Paths /\ up # "/"
  BY <1>2, BelowFacts, PathAssumption DEF q, up
<1>4. IsDirectory(source, up)
  BY <1>2, <1>3 DEF IsUFS, IsTree, up
<1>5. PICK i \in 1..Len(nodes) : nodes[i] = up
  BY <1>1, <1>3, <1>4 DEF IsDirectory, Exists
<1>6. i < k
  <2>1. SUFFICES ASSUME ~(i < k) PROVE FALSE
    OBVIOUS
  <2>2. q # up
    BY <1>2, OrderFacts, PathAssumption DEF up
  <2>3. k < i
    BY <1>1, <1>5, <2>1, <2>2 DEF q
  <2>4. PICK a \in 1..Len(Order), b \in 1..Len(Order) : a < b /\ q = Order[a] /\ up = Order[b]
    BY <1>1, <1>5, <2>3 DEF Rising, q
  <2>5. PICK c \in 1..(a - 1) : Order[c] = up
    BY <1>3, <2>4, PathAssumption DEF up
  <2>6. c = b
    BY <2>4, <2>5, OrderFacts, PathAssumption
  <2>7. QED
    BY <2>4, <2>5, <2>6, OrderFacts
<1>7. i \in 1..(k - 1)
  BY <1>1, <1>6
<1>8. QED
  BY <1>3, <1>4, <1>5, <1>7 DEF q, up

NoSymlinks(source, root) ==
  \A q \in Below(root) \cap DOMAIN source.name : node(source, q).kind # "symlink"

LEMMA PlantedFits ==
  ASSUME NEW j, j.root \in Paths, j.from \in Paths, NEW image, NEW source, NEW kept, NEW fresh, NEW draft,
         NEW nodes, nodes = tree_inventory(source, j.from), NEW k \in 1..Len(nodes),
         Planted(j, image, source, kept, fresh, {nodes[i] : i \in 1..(k - 1)}, draft),
         kept \cap Below(j.root) = {}, Kind(draft, j.root) = "directory", NoSymlinks(source, j.from)
  PROVE  inserted(draft, source, j.target[nodes[k]], nodes[k]) # {}
<1>. DEFINE q == nodes[k]
            p == j.target[q]
            in == {nodes[i] : i \in 1..(k - 1)}
<1>1. /\ Len(nodes) \in Nat
      /\ {nodes[i] : i \in 1..Len(nodes)} = Below(j.from) \cap DOMAIN source.name
      /\ \A a, b \in 1..Len(nodes) : nodes[a] = nodes[b] => a = b
  BY ONLY InventoryFacts, nodes = tree_inventory(source, j.from)
<1>2. /\ Planted(j, image, source, kept, fresh, in, draft)
      /\ IsTarget(j) /\ IsUFS(source) /\ IsUFS(draft) /\ fresh \subseteq {j.root} /\ in \subseteq Below(j.from)
  BY DEF Planted, Apart
<1>3. DOMAIN draft.name = kept \cup fresh \cup Placed(j, in)
  <2>. HIDE DEF in
  <2>1. QED
    BY <1>2, PlantedFacts
<1>4. \A r \in in : Kind(draft, j.target[r]) = node(source, r).kind
  <2>. HIDE DEF in
  <2>1. QED
    BY <1>2, PlantedKinds
<1>5. q \in Below(j.from) /\ q \in DOMAIN source.name /\ q \notin in
  BY <1>1
<1>6. IsNode(node(source, q)) /\ node(source, q).kind # "symlink"
  BY <1>2, <1>5, ImageFacts DEF IsUFS, NoSymlinks
<1>7. p \in Paths /\ p \in Below(j.root)
  BY <1>2, <1>5, TargetIsBelow DEF IsTarget
<1>8. p \notin Placed(j, in)
  <2>. HIDE DEF in, q
  <2>1. \A r \in in : j.target[r] # p
    BY <1>2, <1>5 DEF IsTarget
  <2>. HIDE DEF p
  <2>2. QED
    BY <2>1 DEF Placed
<1>9. ~Exists(draft, p)
  BY <1>2, <1>3, <1>7, <1>8, NotBelowItself DEF Exists
<1>10. Parent[p] = IF Parent[q] = j.from THEN j.root ELSE j.target[Parent[q]]
  BY <1>2, <1>5 DEF IsTarget
<1>11. Kind(draft, Parent[p]) = "directory"
  <2>1. CASE Parent[q] = j.from
    BY <1>10, <2>1
  <2>2. CASE Parent[q] # j.from
    <3>1. /\ \E i \in 1..(k - 1) : nodes[i] = Parent[q]
          /\ IsDirectory(source, Parent[q])
      BY <1>2, <2>2, ParentsFirst
    <3>2. Parent[q] \in in
      BY <3>1
    <3>3. node(source, Parent[q]).kind = "directory"
      BY <3>1 DEF IsDirectory
    <3>4. QED
      BY <1>4, <1>10, <2>2, <3>2, <3>3
  <2>3. QED
    BY <2>1, <2>2
<1>12. Free(draft, p)
  BY <1>2, <1>9, <1>11, KindFacts DEF HasRoom
<1>. HIDE DEF q, p, in
<1>13. inserted(draft, source, p, q) # {}
  BY <1>2, <1>6, <1>7, <1>12, InsertedFits
<1>14. QED
  BY <1>13 DEF p, q

(* A tree is inserted without a refusal when there is room for its root    *)
(* and nothing in it is a symlink.                                         *)
LEMMA GrowingFits ==
  ASSUME NEW j, j.op = "insert_tree", j.root \in Paths, j.from \in Paths,
         NEW image, NEW source, NEW list, list # << >>, NEW draft,
         Plan(j, source, list), Growing(j, image, source, list, draft),
         Free(image, j.root), NoSymlinks(source, j.from)
  PROVE  TreeStep(source, Head(list), draft) # {}
<1>. DEFINE nodes == tree_inventory(source, j.from)
            n == Len(nodes)
            l == Len(list)
            t == Head(list)
            fresh == IF j.op = "insert_tree" /\ l <= n THEN {j.root} ELSE {}
            in == {nodes[i] : i \in 1..(n - l)}
<1>1. PICK kept : /\ Planted(j, image, source, kept, fresh, in, draft)
                  /\ j.op = "insert_tree" =>
                       /\ kept = DOMAIN image.name
                       /\ l <= n => j.root \notin DOMAIN image.name
  BY DEF Growing
<1>2. /\ l \in Nat /\ l > 0 /\ n \in Nat
      /\ l <= n => /\ (n - l) + 1 \in 1..n
                   /\ t = [do |-> "insert", name |-> j.target[nodes[(n - l) + 1]], from |-> nodes[(n - l) + 1]]
      /\ l > n /\ j.op = "insert_tree" => l = n + 1 /\ t = [do |-> "root", name |-> j.root]
  BY PlanHead
<1>3. /\ t.do = "insert" => TreeStep(source, t, draft) = inserted(draft, source, t.name, t.from)
      /\ t.do = "root" => TreeStep(source, t, draft) = mkdir(draft, t.name)
  BY DEF TreeStep
<1>4. IsUFS(image) /\ IsUFS(draft)
  BY <1>1 DEF Planted
<1>. HIDE DEF nodes, n, l, t
<1>5. CASE l <= n
  <2>. DEFINE k == (n - l) + 1
  <2>1. /\ k \in 1..n /\ k - 1 = n - l
        /\ t = [do |-> "insert", name |-> j.target[nodes[k]], from |-> nodes[k]]
    BY <1>2, <1>5
  <2>2. t.do = "insert" /\ t.name = j.target[nodes[k]] /\ t.from = nodes[k]
    BY <2>1
  <2>. HIDE DEF k
  <2>3. /\ Planted(j, image, source, DOMAIN image.name, {j.root}, {nodes[i] : i \in 1..(k - 1)}, draft)
        /\ j.root \notin DOMAIN image.name
    BY <1>1, <1>5, <2>1
  <2>4. DOMAIN image.name \cap Below(j.root) = {}
    BY <1>4, <2>3, NothingBelow
  <2>5. Kind(draft, j.root) = "directory"
    BY <2>3, PlantedKinds
  <2>6. k \in 1..Len(nodes)
    BY <2>1 DEF n
  <2>7. inserted(draft, source, j.target[nodes[k]], nodes[k]) # {}
    BY <2>3, <2>4, <2>5, <2>6, PlantedFits DEF nodes
  <2>8. QED
    BY <1>3, <2>2, <2>7 DEF t
<1>6. CASE l > n
  <2>1. t = [do |-> "root", name |-> j.root]
    BY <1>2, <1>6
  <2>2. t.do = "root" /\ t.name = j.root
    BY <2>1
  <2>3. in = {} /\ fresh = {}
    BY <1>2, <1>6
  <2>4. Planted(j, image, source, DOMAIN image.name, {}, {}, draft)
    BY <1>1, <2>3
  <2>5. DOMAIN draft.name = DOMAIN image.name \cup {} \cup Placed(j, {})
    BY <2>4, PlantedFacts
  <2>6. \A p : Kind(draft, p) = Kind(image, p)
    <3>1. DOMAIN draft.name = DOMAIN image.name
      BY <2>5 DEF Placed
    <3>2. \A p \in DOMAIN image.name : Kind(draft, p) = Kind(image, p)
      BY <2>4, PlantedKinds
    <3>3. QED
      BY <3>1, <3>2 DEF Kind, Exists
  <2>7. Free(draft, j.root)
    BY <1>4, <2>6, KindFacts DEF HasRoom
  <2>8. mkdir(draft, j.root) # {}
    BY <2>7 DEF mkdir
  <2>9. QED
    BY <1>3, <2>2, <2>8 DEF t
<1>7. QED
  BY <1>2, <1>5, <1>6

(* The old tree goes from its end: what is in a directory is gone before   *)
(* the directory is.                                                       *)
LEMMA LastIsEmpty ==
  ASSUME NEW image, NEW root \in Paths, NEW old, old = tree_inventory(image, root),
         NEW k \in 1..Len(old), NEW q, Parent[q] = old[k],
         q \in DOMAIN image.name, DOMAIN image.name \subseteq Paths
  PROVE  \E i \in (k + 1)..Len(old) : old[i] = q
<1>1. /\ Len(old) \in Nat /\ Rising(old)
      /\ {old[i] : i \in 1..Len(old)} = Below(root) \cap DOMAIN image.name
      /\ \A a, b \in 1..Len(old) : old[a] = old[b] => a = b
  BY ONLY InventoryFacts, old = tree_inventory(image, root)
<1>. DEFINE p == old[k]
<1>2. p \in Below(root) /\ p \in Paths
  BY <1>1, BelowFacts
<1>3. q \in Below(root) /\ q # p
  BY <1>2, BelowFacts, OrderFacts, PathAssumption
<1>4. PICK i \in 1..Len(old) : old[i] = q
  BY <1>1, <1>3
<1>5. ~(i < k)
  <2>1. SUFFICES ASSUME i < k PROVE FALSE
    OBVIOUS
  <2>. HIDE DEF p
  <2>2. PICK a \in 1..Len(Order), b \in 1..Len(Order) : a < b /\ q = Order[a] /\ p = Order[b]
    BY <1>1, <1>4, <2>1 DEF Rising, p
  <2>3. Parent[q] # "/"
    BY <1>2, PathAssumption DEF p
  <2>4. PICK c \in 1..(a - 1) : Order[c] = p
    BY <2>2, <2>3, PathAssumption DEF p
  <2>5. c = b
    BY <2>2, <2>4, OrderFacts, PathAssumption
  <2>6. QED
    BY <2>2, <2>4, <2>5, OrderFacts
<1>6. i # k
  BY <1>3, <1>4
<1>7. i \in (k + 1)..Len(old)
  BY <1>1, <1>5, <1>6
<1>8. QED
  BY <1>4, <1>7

LEMMA ClearingFits ==
  ASSUME NEW j, j.op = "replace_tree", j.root \in Paths, j.from \in Paths,
         NEW image, NEW source, NEW list, list # << >>, NEW draft,
         Clearing(j, image, source, list, draft), NoSymlinks(source, j.from)
  PROVE  TreeStep(source, Head(list), draft) # {}
<1>. DEFINE nodes == tree_inventory(source, j.from)
            old == tree_inventory(image, j.root)
            n == Len(nodes)
            m == Len(old)
            l == Len(list)
            t == Head(list)
            gone == Gone(j, image, source, list)
            kept == DOMAIN image.name \ gone
            in == {nodes[i] : i \in 1..(n - l)}
<1>1. /\ Plan(j, source, list) /\ Clears(j, image, source, list) /\ IsDirectory(image, j.root)
      /\ Planted(j, image, source, kept, {}, in, draft)
  BY DEF Clearing
<1>2. /\ l \in Nat /\ l > 0 /\ n \in Nat
      /\ l <= n => /\ (n - l) + 1 \in 1..n
                   /\ t = [do |-> "insert", name |-> j.target[nodes[(n - l) + 1]], from |-> nodes[(n - l) + 1]]
  BY <1>1, PlanHead
<1>3. l > n => l - n \in 1..m /\ t = Removal(image, old[l - n])
  <2>1. IsList(list)
    BY <1>1 DEF Plan
  <2>2. QED
    BY <1>1, <2>1, ClearsHead
<1>4. /\ t.do = "rmdir" => TreeStep(source, t, draft) = rmdir(draft, t.name)
      /\ t.do = "unlink" => TreeStep(source, t, draft) = unlink(draft, t.name)
      /\ t.do = "insert" => TreeStep(source, t, draft) = inserted(draft, source, t.name, t.from)
  BY DEF TreeStep
<1>5. IsUFS(image) /\ IsUFS(draft) /\ DOMAIN image.name \subseteq Paths
  BY <1>1 DEF Planted, IsUFS, IsImage
<1>6. gone = {old[k] : k \in {i \in 1..m : i > l - n}}
  BY DEF Gone
<1>7. /\ m \in Nat /\ {old[k] : k \in 1..m} = Below(j.root) \cap DOMAIN image.name
      /\ \A a, b \in 1..m : old[a] = old[b] => a = b
  BY ONLY InventoryFacts
<1>. HIDE DEF nodes, n, l, t, gone, m, kept, old
<1>8. CASE l <= n
  <2>. DEFINE k == (n - l) + 1
  <2>1. /\ k \in 1..n /\ k - 1 = n - l
        /\ t = [do |-> "insert", name |-> j.target[nodes[k]], from |-> nodes[k]]
    BY <1>2, <1>8
  <2>2. t.do = "insert" /\ t.name = j.target[nodes[k]] /\ t.from = nodes[k]
    BY <2>1
  <2>3. {i \in 1..m : i > l - n} = 1..m
    BY <1>2, <1>7, <1>8
  <2>4. gone = Below(j.root) \cap DOMAIN image.name
    BY <1>6, <1>7, <2>3
  <2>5. kept \cap Below(j.root) = {} /\ j.root \in kept
    BY <1>1, <2>4, NotBelowItself DEF kept, IsDirectory, Exists
  <2>6. Kind(draft, j.root) = "directory"
    <3>. HIDE DEF in
    <3>1. Kind(draft, j.root) = Kind(image, j.root)
      BY <1>1, <2>5, PlantedKinds
    <3>2. QED
      BY <1>1, <1>5, <3>1, KindFacts
  <2>. HIDE DEF k
  <2>7. Planted(j, image, source, kept, {}, {nodes[i] : i \in 1..(k - 1)}, draft)
    BY <1>1, <2>1
  <2>8. k \in 1..Len(nodes)
    BY <2>1 DEF n
  <2>9. inserted(draft, source, j.target[nodes[k]], nodes[k]) # {}
    BY <2>5, <2>6, <2>7, <2>8, PlantedFits DEF nodes
  <2>10. QED
    BY <1>4, <2>2, <2>9 DEF t
<1>9. CASE l > n
  <2>. DEFINE k == l - n
              p == old[k]
  <2>1. k \in 1..m /\ t = Removal(image, p)
    BY <1>3, <1>9
  <2>2. t.name = p /\ t.do = IF IsDirectory(image, p) THEN "rmdir" ELSE "unlink"
    BY <2>1 DEF Removal
  <2>3. in = {}
    <3>1. 1..(n - l) = {}
      BY <1>2, <1>9
    <3>2. QED
      BY <3>1
  <2>4. Planted(j, image, source, kept, {}, {}, draft)
    BY <1>1, <2>3
  <2>5. DOMAIN draft.name = kept
    <3>1. DOMAIN draft.name = kept \cup {} \cup Placed(j, {})
      BY <2>4, PlantedFacts
    <3>2. QED
      BY <3>1 DEF Placed
  <2>6. p \in kept
    <3>1. p \in DOMAIN image.name
      BY <1>7, <2>1
    <3>2. p \notin gone
      BY <1>6, <1>7, <2>1
    <3>3. QED
      BY <3>1, <3>2 DEF kept
  <2>7. Kind(draft, p) = Kind(image, p)
    BY <2>4, <2>6, PlantedKinds
  <2>8. Exists(draft, p) /\ (IsDirectory(draft, p) <=> IsDirectory(image, p))
    BY <1>5, <2>5, <2>6, <2>7, KindFacts DEF Exists
  <2>9. ASSUME NEW q \in DOMAIN draft.name, Parent[q] = p PROVE FALSE
    <3>1. q \in DOMAIN image.name /\ q \notin gone
      BY <2>5 DEF kept
    <3>2. PICK i \in (k + 1)..m : old[i] = q
      <4>. HIDE DEF k
      <4>1. k \in 1..Len(old) /\ Parent[q] = old[k]
        BY <2>1, <2>9 DEF m
      <4>2. QED
        BY <1>5, <3>1, <4>1, LastIsEmpty DEF old, m
    <3>3. i \in 1..m /\ i > l - n
      BY <2>1
    <3>4. QED
      BY <1>6, <3>1, <3>2, <3>3
  <2>10. TreeStep(source, t, draft) # {}
    <3>. HIDE DEF p
    <3>1. CASE IsDirectory(image, p)
      <4>1. rmdir(draft, p) # {}
        BY <2>8, <2>9, <3>1 DEF rmdir
      <4>2. QED
        BY <1>4, <2>2, <3>1, <4>1
    <3>2. CASE ~IsDirectory(image, p)
      <4>1. unlink(draft, p) # {}
        BY <2>8, <3>2 DEF unlink
      <4>2. QED
        BY <1>4, <2>2, <3>2, <4>1
    <3>3. QED
      BY <3>1, <3>2
  <2>11. QED
    BY <2>10 DEF t
<1>10. QED
  BY <1>2, <1>8, <1>9

(* A member of an archive fits where there is a directory for it, and no   *)
(* directory in its place; a hard link's target must be there, and another *)
(* path than its own, which has just been taken away.                      *)
KindAt(members, image, origin, k, p) ==
  IF origin[k][p] = <<"none", 0>> THEN "none" ELSE Content(members, image, origin, k, origin[k][p]).kind

RoomAt(members, image, origin, k, p) ==
  Parent[p] = "/" \/ KindAt(members, image, origin, k, Parent[p]) = "directory"

MemberFits(members, image, origin, k, m) ==
  /\ m.do = "directory" =>
       KindAt(members, image, origin, k, m.name) # "none" \/ RoomAt(members, image, origin, k, m.name)
  /\ m.do # "directory" =>
       /\ KindAt(members, image, origin, k, m.name) # "directory"
       /\ RoomAt(members, image, origin, k, m.name)
  /\ m.do = "hardlink" =>
       m.data # m.name /\ KindAt(members, image, origin, k, m.data) \notin {"none", "directory"}

LEMMA KindIsShown ==
  ASSUME NEW members, NEW image, NEW origin, NEW k, NEW draft,
         Partial(members, image, origin, k, draft), NEW p \in Paths
  PROVE  Kind(draft, p) = KindAt(members, image, origin, k, p)
<1>. DEFINE O == OriginAt(origin, k)
            C == ContentAt(members, image, origin, k)
<1>1. Shows(draft, O, C)
  BY DEF Partial
<1>2. /\ p \in DOMAIN O <=> origin[k][p] # <<"none", 0>>
      /\ C[p] = Content(members, image, origin, k, origin[k][p])
  BY DEF OriginAt, ContentAt
<1>. HIDE DEF O, C
<1>3. p \in DOMAIN draft.name <=> p \in DOMAIN O
  BY <1>1 DEF Shows
<1>4. p \in DOMAIN O => node(draft, p).kind = C[p].kind
  BY <1>1 DEF Shows, Written
<1>5. QED
  BY <1>2, <1>3, <1>4 DEF Kind, KindAt, Exists

LEMMA AppliedFits ==
  ASSUME NEW members, NEW image, NEW origin, NEW k, NEW draft,
         Partial(members, image, origin, k, draft), NEW m, IsMember(m),
         MemberFits(members, image, origin, k, m)
  PROVE  Applied(draft, m) # {}
<1>. DEFINE p == m.name
<1>1. IsUFS(draft) /\ p \in Paths /\ (m.do = "hardlink" => m.data \in Paths)
  BY DEF Partial, IsMember
<1>2. \A q \in Paths : Kind(draft, q) = KindAt(members, image, origin, k, q)
  BY KindIsShown
<1>3. RoomAt(members, image, origin, k, p) => HasRoom(draft, p)
  BY <1>1, <1>2, PathAssumption DEF RoomAt, HasRoom
<1>4. /\ m.do = "directory" => Kind(draft, p) # "none" \/ HasRoom(draft, p)
      /\ m.do # "directory" => Kind(draft, p) # "directory" /\ HasRoom(draft, p)
      /\ m.do = "hardlink" => m.data # p /\ Kind(draft, m.data) \notin {"none", "directory"}
  BY <1>1, <1>2, <1>3 DEF MemberFits
<1>5. (\E mid \in Brought(draft, m) : chmod(mid, p, m.attr) # {}) => Applied(draft, m) # {}
  BY DEF Brought, Applied
<1>. HIDE DEF p
<1>6. CASE m.do = "directory"
  <2>1. CASE Exists(draft, p)
    <3>1. draft \in Brought(draft, m)
      BY <1>6, <2>1 DEF Brought, p
    <3>2. chmod(draft, p, m.attr) # {}
      BY <2>1 DEF chmod
    <3>3. QED
      BY <1>5, <3>1, <3>2
  <2>2. CASE ~Exists(draft, p)
    <3>1. Free(draft, p)
      BY <1>1, <1>4, <1>6, <2>2, KindFacts
    <3>2. PICK mid \in mkdir(draft, p) : chmod(mid, p, m.attr) # {}
      BY <1>1, <3>1, DirectoryFits
    <3>3. mid \in Brought(draft, m)
      BY <1>6, <2>2, <3>2 DEF Brought, p
    <3>4. QED
      BY <1>5, <3>2, <3>3
  <2>3. QED
    BY <2>1, <2>2
<1>7. ASSUME m.do # "directory"
      PROVE  \E i \in Cleared(draft, p) :
               /\ IsUFS(i) /\ Free(i, p)
               /\ \A q : q # p => Kind(i, q) = Kind(draft, q)
  BY <1>1, <1>4, <1>7, ClearFits
<1>8. CASE m.do = "file"
  <2>1. PICK i \in Cleared(draft, p) : IsUFS(i) /\ Free(i, p)
    BY <1>7, <1>8
  <2>2. PICK mid \in from_file(i, p, m.data) : chmod(mid, p, m.attr) # {}
    BY <1>1, <2>1, FileFits
  <2>3. mid \in Brought(draft, m)
    BY <1>8, <2>1, <2>2 DEF Brought, p
  <2>4. QED
    BY <1>5, <2>2, <2>3
<1>9. CASE m.do = "symlink"
  <2>1. PICK i \in Cleared(draft, p) : IsUFS(i) /\ Free(i, p)
    BY <1>7, <1>9
  <2>2. PICK mid \in symlink(i, m.data, p) : chmod(mid, p, m.attr) # {}
    BY <1>1, <2>1, SymlinkFits
  <2>3. mid \in Brought(draft, m)
    BY <1>9, <2>1, <2>2 DEF Brought, p
  <2>4. QED
    BY <1>5, <2>2, <2>3
<1>10. CASE m.do = "hardlink"
  <2>1. PICK i \in Cleared(draft, p) : /\ IsUFS(i) /\ Free(i, p)
                                       /\ \A q : q # p => Kind(i, q) = Kind(draft, q)
    BY <1>7, <1>10
  <2>2. Kind(i, m.data) \notin {"none", "directory"}
    BY <1>4, <1>10, <2>1
  <2>3. Exists(i, m.data) /\ ~IsDirectory(i, m.data)
    BY <2>1, <2>2, KindFacts
  <2>4. PICK mid \in link(i, m.data, p) : chmod(mid, p, m.attr) # {}
    BY <2>1, <2>3, LinkFits
  <2>5. mid \in Brought(draft, m)
    BY <1>10, <2>1, <2>4 DEF Brought, p
  <2>6. QED
    BY <1>5, <2>4, <2>5
<1>11. QED
  BY <1>6, <1>8, <1>9, <1>10 DEF IsMember

(* What a job needs of the images that it finds.                           *)
MembersFit(members, image) ==
  \A k \in 1..Len(members) : MemberFits(members, image, Origin(members, image), k - 1, members[k])

Fits(j, r) ==
  /\ j.op = "overlay" => MembersFit(j.members, r.image)
  /\ j.op = "replace_file" => ~IsDirectory(r.image, j.path)
  /\ j.op = "insert_tree" => Free(r.image, j.root) /\ NoSymlinks(r.source, j.from)
  /\ j.op = "replace_tree" => NoSymlinks(r.source, j.from)

(* What a steady run knows beyond Underway.                                *)
Settled(j, r, list, draft) ==
  /\ j.op = "replace_file" => Exists(r.image, j.path)
  /\ j.op = "replace_tree" => Clearing(j, r.image, r.source, list, draft)

LEMMA UnderwayFits ==
  ASSUME NEW j, IsJob(j), NEW r, NEW list, list # << >>, NEW draft, Underway(j, r, list, draft),
         Settled(j, r, list, draft), Fits(j, r)
  PROVE  EditOf(r.source, Head(list), draft) # {}
<1>. DEFINE t == Head(list)
<1>1. /\ t.do \in {"directory", "file", "symlink", "hardlink"} =>
           EditOf(r.source, t, draft) = Applied(draft, t)
      /\ t.do = "swap" => EditOf(r.source, t, draft) = swapped(draft, t)
      /\ t.do \in {"rmdir", "unlink", "insert", "root"} =>
           EditOf(r.source, t, draft) = TreeStep(r.source, t, draft)
  BY DEF EditOf, TreeStep
<1>2. CASE j.op = "overlay"
  <2>. DEFINE members == j.members
              origin == Origin(members, r.image)
              k == Len(members) - Len(list)
  <2>1. Overlaying(j, r.image, list, draft)
    BY <1>2 DEF Underway
  <2>2. t.do \in {"directory", "file", "symlink", "hardlink"}
    BY <1>2, <2>1, OverlayDoes
  <2>3. Len(members) \in Nat /\ \A i \in 1..Len(members) : IsMember(members[i])
    BY <1>2, JobMembers
  <2>4. IsList(list) /\ Suffix(members, list) /\ Partial(members, r.image, origin, k, draft)
    BY <2>1 DEF Overlaying
  <2>5. t = members[k + 1] /\ k \in Nat /\ k < Len(members)
    BY <2>3, <2>4, SuffixFacts
  <2>6. MembersFit(members, r.image)
    BY <1>2 DEF Fits
  <2>. HIDE DEF t, members, k
  <2>7. k + 1 \in 1..Len(members) /\ (k + 1) - 1 = k
    BY <2>3, <2>5
  <2>8. MemberFits(members, r.image, origin, k, t) /\ IsMember(t)
    BY <2>3, <2>5, <2>6, <2>7 DEF MembersFit
  <2>. HIDE DEF origin
  <2>9. Applied(draft, t) # {}
    BY <2>4, <2>8, AppliedFits
  <2>10. QED
    BY <1>1, <2>2, <2>9 DEF t
<1>3. CASE j.op = "replace_file"
  <2>1. Swapping(j, r.image, list, draft) /\ j.path \in Paths
    BY <1>3 DEF Underway, IsJob
  <2>2. /\ t = [do |-> "swap", name |-> j.path, data |-> j.data, attr |-> "0444"]
        /\ draft = r.image /\ IsUFS(draft)
    BY <2>1, ListFacts DEF Swapping
  <2>3. t.do = "swap" /\ t.name = j.path
    BY <2>2
  <2>4. Exists(draft, t.name) /\ ~IsDirectory(draft, t.name)
    BY <1>3, <2>2, <2>3 DEF Settled, Fits
  <2>. HIDE DEF t
  <2>5. swapped(draft, t) # {}
    BY <2>1, <2>2, <2>3, <2>4, SwapFits
  <2>6. QED
    BY <1>1, <2>3, <2>5 DEF t
<1>4. CASE Tree(j)
  <2>1. Plan(j, r.source, list) /\ Growing(j, r.image, r.source, list, draft)
    BY <1>4 DEF Underway, Tree
  <2>2. j.root \in Paths /\ j.from \in Paths
    BY <1>4 DEF IsJob, Tree
  <2>3. t.do \in {"rmdir", "unlink", "insert", "root"}
    BY <1>4, <2>1, TreeDoes DEF Tree
  <2>4. CASE j.op = "insert_tree"
    <3>1. Free(r.image, j.root) /\ NoSymlinks(r.source, j.from)
      BY <2>4 DEF Fits
    <3>2. TreeStep(r.source, t, draft) # {}
      BY <2>1, <2>2, <2>4, <3>1, GrowingFits
    <3>3. QED
      BY <1>1, <2>3, <3>2
  <2>5. CASE j.op = "replace_tree"
    <3>1. NoSymlinks(r.source, j.from) /\ Clearing(j, r.image, r.source, list, draft)
      BY <2>5 DEF Fits, Settled
    <3>2. TreeStep(r.source, t, draft) # {}
      BY <2>2, <2>5, <3>1, ClearingFits
    <3>3. QED
      BY <1>1, <2>3, <3>2
  <2>6. QED
    BY <1>4, <2>4, <2>5 DEF Tree
<1>5. QED
  BY <1>2, <1>3, <1>4 DEF IsJob, Tree

-----------------------------------------------------------------------------
(* The invariant of the steady runs.  A writer that is about to copy will  *)
(* find what it looked at; one that edits has taken from the draft just    *)
(* what its list no longer names; one that is refused had no room.         *)
Aimed(held, j, list) ==
  /\ j.op = "replace_file" => Exists(held[j.image], j.path)
  /\ j.op = "replace_tree" =>
       /\ IsDirectory(held[j.image], j.root)
       /\ list = TreeList(j, held[j.image], held[j.source])

SteadySound(w) ==
  /\ at[w] = "copy" => Aimed(files, job[w], todo[w])
  /\ at[w] \in {"edit", "publish", "unverified"} =>
       Settled(job[w], read[w], todo[w], working[w])
  /\ at[w] = "unverified" => ~Passed(job[w], read[w], working[w])
  /\ at[w] = "refused" => ~Fits(job[w], read[w])

SteadyInv == \A w \in Writers : SteadySound(w)

LEMMA StartSteady ==
  ASSUME ImageInv, NEW w \in Writers, start(w)
  PROVE  SteadySound(w)'
<1>1. DomainsSound
  BY DEF ImageInv
<1>2. PICK j \in Jobs[w] : /\ Accepts(j)
                           /\ job' = [job EXCEPT ![w] = j]
                           /\ todo' = [todo EXCEPT ![w] = Todo(j)]
  BY DEF start
<1>3. at' = [at EXCEPT ![w] = "copy"] /\ UNCHANGED <<files, working, read>>
  BY DEF start
<1>4. at'[w] = "copy" /\ job'[w] = j /\ todo'[w] = Todo(j)
  BY <1>1, <1>2, <1>3 DEF DomainsSound
<1>5. j.op = "replace_tree" => Todo(j) = TreeList(j, files[j.image], files[j.source])
  BY DEF Todo, TreeList
<1>6. Aimed(files, j, Todo(j))
  BY <1>2, <1>5 DEF Accepts, Aimed
<1>7. QED
  BY <1>3, <1>4, <1>6 DEF SteadySound

LEMMA CopySteady ==
  ASSUME ImageInv, NEW w \in Writers, SteadySound(w), copy(w)
  PROVE  SteadySound(w)'
<1>. DEFINE j == job[w]
            r == [image |-> files[j.image], source |-> Source(j)]
<1>1. DomainsSound /\ FilesSound /\ WriterSound(w)
  BY DEF ImageInv
<1>2. /\ at[w] = "copy" /\ at' = [at EXCEPT ![w] = "edit"]
      /\ working' = [working EXCEPT ![w] = files[j.image]]
      /\ read' = [read EXCEPT ![w] = r]
      /\ UNCHANGED <<files, job, todo>>
  BY DEF copy
<1>3. at'[w] = "edit" /\ job'[w] = j /\ todo'[w] = todo[w] /\ working'[w] = files[j.image] /\ read'[w] = r
  BY <1>1, <1>2 DEF DomainsSound
<1>4. j \in Jobs[w] /\ Ready(files, j, todo[w]) /\ Aimed(files, j, todo[w])
  BY <1>1, <1>2 DEF WriterSound, SteadySound
<1>5. IsJob(j)
  BY <1>1, <1>4, JobIs
<1>6. r.image = files[j.image] /\ (j.op = "replace_tree" => r.source = files[j.source])
  BY DEF Source
<1>. HIDE DEF r, j
<1>7. ASSUME j.op = "replace_tree"
      PROVE  Clearing(j, r.image, r.source, todo[w], files[j.image])
  <2>1. IsTarget(j) /\ IsUFS(r.image) /\ IsUFS(r.source)
    BY <1>4, <1>5, <1>6, <1>7 DEF IsJob, Ready, Tree
  <2>2. IsDirectory(r.image, j.root) /\ todo[w] = TreeList(j, r.image, r.source)
    BY <1>4, <1>6, <1>7 DEF Aimed
  <2>3. Clearing(j, r.image, r.source, todo[w], r.image)
    BY <1>7, <2>1, <2>2, ClearingFirst
  <2>4. QED
    BY <1>6, <2>3
<1>8. j.op = "replace_file" => Exists(r.image, j.path)
  BY <1>4, <1>6 DEF Aimed
<1>9. Settled(j, r, todo[w], files[j.image])
  BY <1>7, <1>8 DEF Settled
<1>10. QED
  BY <1>3, <1>9 DEF SteadySound

LEMMA EditSteady ==
  ASSUME ImageInv, NEW w \in Writers, SteadySound(w), edit(w)
  PROVE  SteadySound(w)'
<1>. DEFINE j == job[w]
            r == read[w]
            t == Head(todo[w])
            after == Edited(w, t)
<1>1. DomainsSound /\ FilesSound /\ WriterSound(w)
  BY DEF ImageInv
<1>2. /\ at[w] = "edit" /\ todo[w] # << >> /\ UNCHANGED <<files, job, read>>
  BY DEF edit
<1>3. \/ \E image \in after : /\ working' = [working EXCEPT ![w] = image]
                              /\ todo' = [todo EXCEPT ![w] = Tail(@)]
                              /\ UNCHANGED at
      \/ /\ at' = [at EXCEPT ![w] = IF after = {} THEN "refused" ELSE "failed"]
         /\ UNCHANGED <<todo, working>>
  BY DEF edit
<1>4. /\ j \in Jobs[w] /\ Underway(j, r, todo[w], working[w])
      /\ Tree(j) => r.source = files[j.source]
      /\ Settled(j, r, todo[w], working[w])
  BY <1>1, <1>2 DEF WriterSound, SteadySound
<1>5. IsJob(j)
  BY <1>1, <1>4, JobIs
<1>6. Tree(j) \/ t.do # "insert"
  BY <1>2, <1>4, <1>5, OnlyTreesInsert
<1>7. after = EditOf(r.source, t, working[w])
  BY <1>4, <1>6, EditedIs
<1>. HIDE DEF after
<1>8. CASE \E image \in after : /\ working' = [working EXCEPT ![w] = image]
                                /\ todo' = [todo EXCEPT ![w] = Tail(@)]
                                /\ UNCHANGED at
  <2>1. PICK image \in after : /\ working' = [working EXCEPT ![w] = image]
                               /\ todo' = [todo EXCEPT ![w] = Tail(@)]
                               /\ UNCHANGED at
    BY <1>8
  <2>2. working'[w] = image /\ todo'[w] = Tail(todo[w]) /\ at'[w] = "edit" /\ job'[w] = j /\ read'[w] = r
    BY <1>1, <1>2, <2>1 DEF DomainsSound
  <2>3. ASSUME j.op = "replace_tree" PROVE Clearing(j, r.image, r.source, Tail(todo[w]), image)
    <3>1. Clearing(j, r.image, r.source, todo[w], working[w]) /\ Plan(j, r.source, todo[w])
      BY <1>4, <2>3 DEF Settled, Clearing
    <3>2. t.do \in {"rmdir", "unlink", "insert", "root"}
      BY <1>2, <2>3, <3>1, TreeDoes
    <3>3. EditOf(r.source, t, working[w]) = TreeStep(r.source, t, working[w])
      BY <3>2 DEF EditOf, TreeStep
    <3>4. image \in TreeStep(r.source, t, working[w])
      BY <1>7, <2>1, <3>3
    <3>5. QED
      BY <1>2, <2>3, <3>1, <3>4, ClearingStep
  <2>4. Settled(j, r, Tail(todo[w]), image)
    BY <1>4, <2>3 DEF Settled
  <2>5. QED
    BY <2>2, <2>4 DEF SteadySound
<1>9. CASE /\ at' = [at EXCEPT ![w] = IF after = {} THEN "refused" ELSE "failed"]
           /\ UNCHANGED <<todo, working>>
  <2>1. /\ at'[w] = (IF after = {} THEN "refused" ELSE "failed") /\ job'[w] = j /\ read'[w] = r
    BY <1>1, <1>2, <1>9 DEF DomainsSound
  <2>2. after = {} => ~Fits(j, r)
    BY <1>2, <1>4, <1>5, <1>7, UnderwayFits
  <2>3. QED
    BY <2>1, <2>2 DEF SteadySound
<1>10. QED
  BY <1>3, <1>8, <1>9

LEMMA VerifySteady ==
  ASSUME ImageInv, NEW w \in Writers, SteadySound(w), verify(w)
  PROVE  SteadySound(w)'
<1>1. DomainsSound
  BY DEF ImageInv
<1>2. /\ at[w] = "edit" /\ UNCHANGED <<files, job, todo, working, read>>
      /\ at' = [at EXCEPT ![w] = IF Passes(w) THEN "publish" ELSE "unverified"]
  BY DEF verify
<1>3. /\ at'[w] \in {"publish", "unverified"}
      /\ at'[w] = "unverified" => ~Passed(job[w], read[w], working[w])
  BY <1>1, <1>2, PassedIs DEF DomainsSound
<1>4. Settled(job[w], read[w], todo[w], working[w])
  BY <1>2 DEF SteadySound
<1>5. QED
  BY <1>2, <1>3, <1>4 DEF SteadySound

LEMMA EndSteady ==
  ASSUME ImageInv, NEW w \in Writers, publish(w) \/ kill(w)
  PROVE  SteadySound(w)'
<1>1. at'[w] \in {"done", "killed"}
  BY DEF ImageInv, DomainsSound, publish, kill
<1>2. QED
  BY <1>1 DEF SteadySound

Acts(w) == start(w) \/ copy(w) \/ edit(w) \/ verify(w) \/ publish(w) \/ kill(w)

LEMMA OthersRest ==
  ASSUME DomainsSound, NEW v \in Writers, Acts(v), NEW w \in Writers, v # w
  PROVE  Undisturbed(w)
<1>1. CASE start(v)
  BY <1>1 DEF start, DomainsSound, Undisturbed
<1>2. CASE copy(v)
  BY <1>2 DEF copy, DomainsSound, Undisturbed
<1>3. CASE edit(v)
  <2>. DEFINE after == Edited(v, Head(todo[v]))
  <2>1. /\ UNCHANGED <<files, job, read>>
        /\ \/ \E image \in after : /\ working' = [working EXCEPT ![v] = image]
                                   /\ todo' = [todo EXCEPT ![v] = Tail(@)]
                                   /\ UNCHANGED at
           \/ /\ at' = [at EXCEPT ![v] = IF after = {} THEN "refused" ELSE "failed"]
              /\ UNCHANGED <<todo, working>>
    BY <1>3 DEF edit
  <2>. HIDE DEF after
  <2>2. QED
    BY <2>1 DEF DomainsSound, Undisturbed
<1>4. CASE verify(v)
  BY <1>4 DEF verify, DomainsSound, Undisturbed
<1>5. CASE publish(v)
  BY <1>5 DEF publish, DomainsSound, Undisturbed
<1>6. CASE kill(v)
  BY <1>6 DEF kill, DomainsSound, Undisturbed
<1>7. QED
  BY <1>1, <1>2, <1>3, <1>4, <1>5, <1>6 DEF Acts

LEMMA SourcesKept ==
  ASSUME ImageInv, [Next]_vars, NEW w \in Writers, at[w] # "idle", Tree(job[w])
  PROVE  files'[job[w].source] = files[job[w].source]
<1>1. CASE \E v \in Writers : publish(v)
  <2>1. PICK v \in Writers : publish(v)
    BY <1>1
  <2>2. at[v] = "publish" /\ files' = [files EXCEPT ![job[v].output] = working[v]]
    BY <2>1 DEF publish
  <2>3. WriterSound(v) /\ WriterSound(w) /\ FilesSound
    BY DEF ImageInv
  <2>4. job[v] \in Jobs[v] /\ job[w] \in Jobs[w]
    BY <2>2, <2>3 DEF WriterSound
  <2>5. job[w].source # job[v].output
    BY <2>4, ImageAssumption DEF Tree
  <2>6. job[w].source \in DOMAIN files
    BY <2>3, <2>4, JobIs
  <2>7. QED
    BY <2>2, <2>5, <2>6
<1>2. CASE ~ \E v \in Writers : publish(v)
  <2>1. files' = files
    BY <1>2 DEF Next, vars, start, copy, edit, verify, kill
  <2>2. QED
    BY <2>1
<1>3. QED
  BY <1>1, <1>2

LEMMA RestsSteady ==
  ASSUME ImageInv, [Next]_vars, Steady, NEW w \in Writers, SteadySound(w), Undisturbed(w)
  PROVE  SteadySound(w)'
<1>1. ASSUME at[w] = "copy" PROVE Aimed(files', job[w], todo[w])
  <2>1. at'[w] = "copy"
    BY <1>1 DEF Undisturbed
  <2>2. files'[job[w].image] = files[job[w].image]
    BY <1>1, <2>1 DEF Steady
  <2>3. Tree(job[w]) => files'[job[w].source] = files[job[w].source]
    BY <1>1, SourcesKept
  <2>4. Aimed(files, job[w], todo[w])
    BY <1>1 DEF SteadySound
  <2>5. QED
    BY <2>2, <2>3, <2>4 DEF Aimed, Tree
<1>2. QED
  BY <1>1 DEF SteadySound, Undisturbed

LEMMA SteadyStep == ImageInv /\ SteadyInv /\ [Next]_vars /\ Steady => SteadyInv'
<1>. SUFFICES ASSUME ImageInv, SteadyInv, [Next]_vars, Steady, NEW w \in Writers
              PROVE  SteadySound(w)'
  BY DEF SteadyInv
<1>1. SteadySound(w)
  BY DEF SteadyInv
<1>2. CASE UNCHANGED vars
  <2>1. Undisturbed(w)
    BY <1>2 DEF vars, Undisturbed
  <2>2. QED
    BY <1>1, <2>1, RestsSteady
<1>3. CASE Next
  <2>1. PICK v \in Writers : Acts(v)
    BY <1>3 DEF Next, Acts
  <2>2. CASE v = w
    BY <1>1, <2>1, <2>2, StartSteady, CopySteady, EditSteady, VerifySteady, EndSteady DEF Acts
  <2>3. CASE v # w
    <3>1. Undisturbed(w)
      BY <2>1, <2>3, OthersRest DEF ImageInv
    <3>2. QED
      BY <1>1, <3>1, RestsSteady
  <2>4. QED
    BY <2>2, <2>3
<1>4. QED
  BY <1>2, <1>3

LEMMA SteadyInvInit == Init => SteadyInv
BY DEF Init, SteadyInv, SteadySound

LEMMA SteadyInvHolds == Spec /\ [][Steady]_vars => []SteadyInv
<1>1. SteadyInv /\ UNCHANGED vars => SteadyInv'
  <2>. SUFFICES ASSUME SteadyInv, UNCHANGED vars PROVE SteadyInv'
    OBVIOUS
  <2>1. UNCHANGED <<files, at, job, todo, working, read>>
    BY DEF vars
  <2>2. QED
    BY <2>1 DEF SteadyInv, SteadySound
<1>2. ImageInv /\ SteadyInv /\ [Next]_vars /\ [Steady]_vars => SteadyInv'
  BY <1>1, SteadyStep
<1>3. QED
  BY SteadyInvInit, ImageInvHolds, <1>2, PTL DEF Spec

(* Directories before what is in them, links after their targets, and a    *)
(* tree that is taken away the other way round: nextufs refuses a member   *)
(* or a node only where the image that the writer copied had no room for   *)
(* it by the job's own terms (ufs.py: the order of the archive's members   *)
(* and of both inventories).                                               *)
THEOREM RefusedOnlyIfUnfit ==
  Spec /\ [][Steady]_vars => [](\A w \in Writers : at[w] = "refused" => ~Fits(job[w], read[w]))
<1>1. SteadyInv => \A w \in Writers : at[w] = "refused" => ~Fits(job[w], read[w])
  BY DEF SteadyInv, SteadySound
<1>2. QED
  BY SteadyInvHolds, <1>1, PTL

(* So where every job has room in the image that it copies, nothing that   *)
(* a writer does is ever refused.                                          *)
THEOREM NothingIsRefused ==
  Spec /\ [][Steady]_vars /\ [](\A w \in Writers : at[w] = "edit" => Fits(job[w], read[w]))
    => []NeverRefused
<1>. DEFINE Room == \A w \in Writers : at[w] = "edit" => Fits(job[w], read[w])
<1>1. Init => NeverRefused
  BY DEF Init, NeverRefused
<1>2. ASSUME ImageInv, SteadyInv', Room, NeverRefused, [Next]_vars, NEW w \in Writers, at'[w] = "refused"
      PROVE  FALSE
  <2>1. DomainsSound /\ at[w] # "refused"
    BY <1>2 DEF ImageInv, NeverRefused
  <2>2. PICK v \in Writers : Acts(v)
    BY <1>2, <2>1 DEF Next, Acts, vars
  <2>3. v = w
    BY <1>2, <2>1, <2>2, OthersRest DEF Undisturbed
  <2>4. edit(w)
    BY <1>2, <2>1, <2>2, <2>3 DEF Acts, DomainsSound, start, copy, verify, publish, kill
  <2>5. at[w] = "edit" /\ job' = job /\ read' = read
    BY <2>4 DEF edit
  <2>6. ~Fits(job[w], read[w])
    BY <1>2, <2>5 DEF SteadyInv, SteadySound
  <2>7. QED
    BY <1>2, <2>5, <2>6
<1>3. ImageInv /\ SteadyInv' /\ Room /\ NeverRefused /\ [Next]_vars => NeverRefused'
  BY <1>2 DEF NeverRefused
<1>4. QED
  BY ImageInvHolds, SteadyInvHolds, <1>1, <1>3, PTL DEF Spec

-----------------------------------------------------------------------------
(* What verification finds.  A path that an archive names once, and names  *)
(* as a file, comes from that member whatever follows it.                  *)
LEMMA NamedOnceIsLast ==
  ASSUME NEW members, NEW image, Len(members) \in Nat, NEW i \in 1..Len(members),
         members[i].name \in Paths, members[i].do = "file",
         \A k \in 1..Len(members) : members[k].name = members[i].name => k = i
  PROVE  Origin(members, image)[Len(members)][members[i].name] = <<"member", i>>
<1>. DEFINE n == Len(members)
            p == members[i].name
            origin == Origin(members, image)
            made == Made(members, image, n, p)
<1>1. Makes(members, image, i, p)
  BY DEF Makes
<1>2. made = {i}
  BY <1>1 DEF Made, Makes
<1>3. Max({i}) = i
  BY MaxIs
<1>4. Origins(members, image, origin, n)
  BY OriginIs
<1>. HIDE DEF origin
<1>5. origin[n] = Row(members, image, origin, n)
  BY <1>4 DEF Origins
<1>. HIDE DEF made
<1>6. Row(members, image, origin, n)[p] = <<"member", i>>
  <2>1. Row(members, image, origin, n)[p] =
          IF made = {} THEN First(image, p)
          ELSE LET last == Max(made)
               IN IF members[last].do = "hardlink"
                  THEN origin[last - 1][members[last].data]
                  ELSE <<"member", last>>
    BY DEF Row, made
  <2>2. made # {} /\ Max(made) = i /\ members[i].do # "hardlink"
    BY <1>2, <1>3
  <2>3. QED
    BY <2>1, <2>2
<1>7. QED
  BY <1>5, <1>6 DEF origin

LEMMA MemberIsWritten ==
  ASSUME NEW members, NEW image, Len(members) \in Nat, NEW i \in 1..Len(members),
         members[i].name \in Paths, members[i].do = "file",
         \A k \in 1..Len(members) : members[k].name = members[i].name => k = i,
         NEW draft, Partial(members, image, Origin(members, image), Len(members), draft)
  PROVE  /\ members[i].name \in DOMAIN draft.name
         /\ node(draft, members[i].name).data \in {members[i].data, "corrupt"}
<1>. DEFINE n == Len(members)
            p == members[i].name
            origin == Origin(members, image)
            O == OriginAt(origin, n)
            C == ContentAt(members, image, origin, n)
            o == <<"member", i>>
<1>1. origin[n][p] = o
  BY NamedOnceIsLast
<1>2. Shows(draft, O, C)
  BY DEF Partial
<1>. HIDE DEF origin
<1>3. o # <<"none", 0>> /\ o[1] = "member" /\ o[2] = i
  OBVIOUS
<1>. HIDE DEF o
<1>4. p \in DOMAIN O /\ C[p] = Content(members, image, origin, n, o)
  BY <1>1, <1>3 DEF OriginAt, ContentAt
<1>5. Content(members, image, origin, n, o).data = members[i].data
  BY <1>3 DEF Content
<1>. HIDE DEF O, C
<1>6. p \in DOMAIN draft.name /\ node(draft, p) \in Written(C[p])
  BY <1>2, <1>4 DEF Shows
<1>7. QED
  BY <1>4, <1>5, <1>6 DEF Written

LEMMA OverlayIsHonest ==
  ASSUME NEW j, IsJob(j), j.op = "overlay", NEW image, NEW draft, Overlaying(j, image, << >>, draft),
         NEW p, NEW d \in Expected(j.members, p),
         \A i, k \in 1..Len(j.members) : j.members[i].name = p /\ j.members[k].name = p => i = k,
         node(draft, p).data # d
  PROVE  p \in DOMAIN draft.name /\ node(draft, p).data = "corrupt"
<1>. DEFINE members == j.members
            n == Len(members)
<1>1. n \in Nat /\ \A i \in 1..n : IsMember(members[i])
  BY JobMembers
<1>2. Len(members) - Len(<< >>) = n
  BY <1>1
<1>3. Partial(members, image, Origin(members, image), n, draft)
  BY <1>2 DEF Overlaying
<1>4. PICK i \in 1..n : members[i].name = p /\ members[i].do = "file" /\ d = members[i].data
  BY DEF Expected
<1>5. p \in Paths /\ \A k \in 1..n : members[k].name = p => k = i
  BY <1>1, <1>4 DEF IsMember
<1>. HIDE DEF members
<1>6. p \in DOMAIN draft.name /\ node(draft, p).data \in {members[i].data, "corrupt"}
  BY <1>1, <1>3, <1>4, <1>5, MemberIsWritten
<1>7. QED
  BY <1>4, <1>6

LEMMA SwapIsHonest ==
  ASSUME NEW j, NEW image, NEW draft, Swapping(j, image, << >>, draft),
         node(draft, j.path).data # j.data
  PROVE  j.path \in DOMAIN draft.name /\ node(draft, j.path).data = "corrupt"
<1>. DEFINE O == SwapOrigin(j, image)
            W == SwapWhat(j, image)
<1>1. j.path \in DOMAIN image.name /\ Shows(draft, O, W)
  BY DEF Swapping
<1>2. j.path \in DOMAIN O
  BY <1>1 DEF SwapOrigin, Base
<1>3. W[j.path] = [kind |-> "file", data |-> j.data, attr |-> "0444"]
  BY <1>1 DEF SwapWhat
<1>. HIDE DEF O, W
<1>4. j.path \in DOMAIN draft.name /\ node(draft, j.path) \in Written(W[j.path])
  BY <1>1, <1>2 DEF Shows
<1>5. node(draft, j.path).data \in {j.data, "corrupt"}
  BY <1>3, <1>4 DEF Written
<1>6. QED
  BY <1>4, <1>5

LEMMA FoundIsPassed ==
  ASSUME NEW j, j.op = "replace_tree", NEW r, NEW draft, Found(j, r, draft)
  PROVE  Passed(j, r, draft)
<1>. DEFINE nodes == tree_inventory(r.source, j.from)
            there == tree_inventory(draft, j.root)
<1>1. {nodes[i] : i \in 1..Len(nodes)} = Below(j.from) \cap DOMAIN r.source.name
  BY InventoryFacts
<1>2. {there[i] : i \in 1..Len(there)} = Below(j.root) \cap DOMAIN draft.name
  BY InventoryFacts
<1>3. Passed(j, r, draft) <=>
        /\ Exists(draft, j.root)
        /\ {j.target[nodes[i]] : i \in 1..Len(nodes)} = {there[i] : i \in 1..Len(there)}
  BY DEF Passed
<1>. HIDE DEF nodes, there
<1>4. Placed(j, {nodes[i] : i \in 1..Len(nodes)}) = {j.target[nodes[i]] : i \in 1..Len(nodes)}
  BY DEF Placed
<1>5. QED
  BY <1>1, <1>2, <1>3, <1>4 DEF Found

(* The paths that overlay_bigtar reads back are named by one member each.  *)
NamedOnce(j) ==
  j.op = "overlay" =>
    \A p \in Verified : \A i, k \in 1..Len(j.members) :
      j.members[i].name = p /\ j.members[k].name = p => i = k

LEMMA UnverifiedIsCorrupt ==
  ASSUME NEW j, IsJob(j), NamedOnce(j), NEW r, NEW draft, Underway(j, r, << >>, draft),
         Settled(j, r, << >>, draft), ~Passed(j, r, draft)
  PROVE  \E p \in DOMAIN draft.name : node(draft, p).data = "corrupt"
<1>1. CASE j.op = "overlay"
  <2>1. PICK p \in Verified : \E d \in Expected(j.members, p) : node(draft, p).data # d
    BY <1>1 DEF Passed
  <2>2. PICK d \in Expected(j.members, p) : node(draft, p).data # d
    BY <2>1
  <2>3. Overlaying(j, r.image, << >>, draft)
    BY <1>1 DEF Underway
  <2>4. \A i, k \in 1..Len(j.members) : j.members[i].name = p /\ j.members[k].name = p => i = k
    BY <1>1 DEF NamedOnce
  <2>5. p \in DOMAIN draft.name /\ node(draft, p).data = "corrupt"
    BY <1>1, <2>2, <2>3, <2>4, OverlayIsHonest
  <2>6. QED
    BY <2>5
<1>2. CASE j.op = "replace_file"
  <2>1. Swapping(j, r.image, << >>, draft) /\ node(draft, j.path).data # j.data
    BY <1>2 DEF Underway, Passed
  <2>2. QED
    BY <2>1, SwapIsHonest
<1>3. CASE Tree(j)
  <2>1. j.root \in Paths /\ j.from \in Paths /\ Growing(j, r.image, r.source, << >>, draft)
    BY <1>3 DEF Underway, IsJob, Tree
  <2>2. CASE j.op = "insert_tree"
    <3>1. Len(tree_inventory(draft, j.root)) = Len(tree_inventory(r.source, j.from))
      BY <2>1, <2>2, InsertedIsComplete
    <3>2. Passed(j, r, draft)
      BY <2>2, <3>1 DEF Passed
    <3>3. QED
      BY <3>2
  <2>3. CASE j.op = "replace_tree"
    <3>1. Clearing(j, r.image, r.source, << >>, draft)
      BY <2>3 DEF Settled
    <3>2. Found(j, r, draft)
      BY <2>1, <2>3, <3>1, ClearedIsFound
    <3>3. QED
      BY <2>3, <3>2, FoundIsPassed
  <2>4. QED
    BY <1>3, <2>2, <2>3 DEF Tree
<1>4. QED
  BY <1>1, <1>2, <1>3 DEF IsJob, Tree

(* Verification stops a writer only when nextufs wrote a file wrongly and  *)
(* reported no error: a tree of which every node was handled passes it,    *)
(* and so does a file that was written as it was given (ufs.py: the        *)
(* comparisons before os.replace).                                         *)
THEOREM VerifyingIsHonest ==
  ASSUME \A w \in Writers : \A j \in Jobs[w] : NamedOnce(j)
  PROVE  Spec /\ [][Steady]_vars => []VerificationIsHonest
<1>1. ASSUME ImageInv, SteadyInv PROVE VerificationIsHonest
  <2>. SUFFICES ASSUME NEW w \in Writers, at[w] = "unverified"
                PROVE  \E p \in DOMAIN working[w].name : node(working[w], p).data = "corrupt"
    BY DEF VerificationIsHonest
  <2>1. WriterSound(w) /\ SteadySound(w) /\ FilesSound
    BY <1>1 DEF ImageInv, SteadyInv
  <2>2. /\ job[w] \in Jobs[w] /\ Underway(job[w], read[w], << >>, working[w])
        /\ Settled(job[w], read[w], << >>, working[w])
        /\ ~Passed(job[w], read[w], working[w])
    BY <2>1 DEF WriterSound, SteadySound
  <2>3. IsJob(job[w]) /\ NamedOnce(job[w])
    BY <2>1, <2>2, JobIs
  <2>4. QED
    BY <2>2, <2>3, UnverifiedIsCorrupt
<1>2. QED
  BY ImageInvHolds, SteadyInvHolds, <1>1, PTL
=============================================================================
