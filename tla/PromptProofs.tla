----------------------------- MODULE PromptProofs -----------------------------
(***************************************************************************)
(* Proofs about Prompt and Discovery, for every document, name and depth:  *)
(* what trimming and combining keep of the texts, and that each step of a  *)
(* prompt command keeps what it will print in accord with what it has read.*)
(***************************************************************************)
EXTENDS Prompt, SequenceTheorems, WellFoundedInduction, TLAPS

-----------------------------------------------------------------------------
(* Least and greatest elements of sets of numbers. *)
LEMMA MinExists ==
  ASSUME NEW S \in SUBSET Nat, S # {}
  PROVE  \E x \in S : \A y \in S : x <= y
<1>1. \E x \in S : \A y \in S : ~(<<y, x>> \in OpToRel(<, Nat))
  BY NatLessThanWellFounded, WFMin
<1>2. PICK x \in S : \A y \in S : ~(<<y, x>> \in OpToRel(<, Nat))
  BY <1>1
<1>3. ASSUME NEW y \in S PROVE x <= y
  <2>1. x \in Nat /\ y \in Nat
    OBVIOUS
  <2>2. ~(y < x)
    BY <1>2, <2>1 DEF OpToRel
  <2> QED
    BY <2>1, <2>2
<1> QED
  BY <1>3

LEMMA MinOf ==
  ASSUME NEW S \in SUBSET Nat, S # {}
  PROVE  Min(S) \in S /\ \A y \in S : Min(S) <= y
BY MinExists DEF Min

LEMMA MaxOf ==
  ASSUME NEW n \in Nat, NEW S \in SUBSET (0..n), S # {}
  PROVE  Max(S) \in S /\ \A y \in S : Max(S) >= y
<1> DEFINE T == {n - y : y \in S}
<1>1. T \in SUBSET Nat /\ T # {}
  <2>1. \A y \in S : n - y \in Nat
    OBVIOUS
  <2> QED
    BY <2>1
<1> HIDE DEF T
<1>2. PICK t \in T : \A y \in T : t <= y
  BY <1>1, MinExists
<1>3. PICK x \in S : t = n - x
  BY DEF T
<1>4. ASSUME NEW y \in S PROVE x >= y
  <2>1. n - y \in T
    BY DEF T
  <2>2. n - x <= n - y
    BY <1>2, <1>3, <2>1
  <2>3. x \in 0..n /\ y \in 0..n
    OBVIOUS
  <2> QED
    BY <2>2, <2>3
<1>5. \E z \in S : \A y \in S : z >= y
  BY <1>4
<1> QED
  BY <1>5 DEF Max

(* What is left of lines without the blank ones around them. *)
LEMMA Trimmed ==
  ASSUME NEW S, NEW lines \in Seq(S)
  PROVE  /\ TrimBlankLines(lines) \in Seq(S)
         /\ Words(lines) = {} => TrimBlankLines(lines) = <<>>
         /\ Words(lines) # {} => /\ IsTrimmed(TrimBlankLines(lines), lines)
                                 /\ TrimBlankLines(lines) # <<>>
         /\ Words(TrimBlankLines(lines)) = Words(lines)
<1> DEFINE text == {i \in DOMAIN lines : lines[i] # Blank}
<1>0. DOMAIN lines = 1..Len(lines) /\ Len(lines) \in Nat
  OBVIOUS
<1>1. (text = {}) <=> (Words(lines) = {})
  BY DEF Words
<1>2. CASE text = {}
  <2>1. TrimBlankLines(lines) = <<>>
    BY <1>2 DEF TrimBlankLines
  <2>2. Words(<<>>) = {}
    BY DEF Words
  <2>3. <<>> \in Seq(S) /\ Words(lines) = {}
    BY <1>1, <1>2
  <2> QED
    BY <2>1, <2>2, <2>3
<1>3. CASE text # {}
  <2> DEFINE a == Min(text)
             b == Max(text)
  <2>1. TrimBlankLines(lines) = SubSeq(lines, a, b)
    BY <1>3 DEF TrimBlankLines
  <2>2. text \in SUBSET Nat /\ text \in SUBSET (0..Len(lines))
    BY <1>0
  <2>0. \A k \in DOMAIN lines : k \in text <=> lines[k] # Blank
    OBVIOUS
  <2>00. text \subseteq DOMAIN lines
    OBVIOUS
  <2> HIDE DEF text
  <2>3. a \in text /\ \A y \in text : a <= y
    BY <1>3, <2>2, MinOf
  <2>4. b \in text /\ \A y \in text : b >= y
    BY <1>0, <1>3, <2>2, MaxOf
  <2> HIDE DEF a, b
  <2>5. /\ a \in 1..Len(lines) /\ b \in 1..Len(lines) /\ a <= b
        /\ lines[a] # Blank /\ lines[b] # Blank
        /\ \A k \in DOMAIN lines : k < a \/ k > b => lines[k] = Blank
    BY <1>0, <2>0, <2>00, <2>3, <2>4
  <2>6. /\ SubSeq(lines, a, b) \in Seq(S)
        /\ DOMAIN SubSeq(lines, a, b) = 1..(b - a + 1)
        /\ \A i \in 1..(b - a + 1) : SubSeq(lines, a, b)[i] = lines[a + i - 1]
    BY <1>0, <2>5, SubSeqProperties
  <2>7. IsTrimmed(SubSeq(lines, a, b), lines)
    BY <1>0, <2>5 DEF IsTrimmed
  <2>8. SubSeq(lines, a, b) # <<>>
    BY <1>0, <2>5, <2>6
  <2>9. Words(SubSeq(lines, a, b)) = Words(lines)
    <3>1. ASSUME NEW i \in 1..(b - a + 1) PROVE SubSeq(lines, a, b)[i] \in {lines[k] : k \in DOMAIN lines}
      <4>1. a + i - 1 \in DOMAIN lines
        BY <1>0, <2>5
      <4> QED
        BY <2>6, <4>1
    <3>2. ASSUME NEW k \in DOMAIN lines, lines[k] # Blank
          PROVE  \E i \in 1..(b - a + 1) : SubSeq(lines, a, b)[i] = lines[k]
      <4>1. k - a + 1 \in 1..(b - a + 1) /\ a + (k - a + 1) - 1 = k
        BY <1>0, <2>5, <3>2
      <4> QED
        BY <2>6, <4>1
    <3> QED
      BY <2>6, <3>1, <3>2 DEF Words
  <2> QED
    BY <1>1, <1>3, <2>1, <2>6, <2>7, <2>8, <2>9
<1> QED
  BY <1>2, <1>3

(* Two texts with a blank line between them. *)
Joined(c, f, g) ==
    \E k \in DOMAIN c :
        /\ c[k] = Blank
        /\ SubSeq(c, 1, k - 1) = f
        /\ SubSeq(c, k + 1, Len(c)) = g

(* Combining loses no line and adds a blank one at most. *)
LEMMA Combined ==
  ASSUME NEW S, NEW f \in Seq(S), NEW g \in Seq(S), Blank \in S
  PROVE  /\ Combine(f, g) \in Seq(S)
         /\ Words(Combine(f, g)) = Words(f) \cup Words(g)
         /\ f = <<>> => Combine(f, g) = g
         /\ g = <<>> => Combine(f, g) = f
         /\ f # <<>> /\ g # <<>> => Joined(Combine(f, g), f, g)
<1>0. /\ DOMAIN f = 1..Len(f) /\ DOMAIN g = 1..Len(g) /\ Len(f) \in Nat /\ Len(g) \in Nat
  OBVIOUS
<1>1. CASE f = <<>> \/ g = <<>>
  <2>1. Words(<<>>) = {}
    BY DEF Words
  <2>2. /\ f = <<>> => Combine(f, g) = g
        /\ g = <<>> => Combine(f, g) = f
    BY <1>1 DEF Combine
  <2> QED
    BY <1>1, <2>1, <2>2
<1>2. CASE f # <<>> /\ g # <<>>
  <2> DEFINE c == f \o <<Blank>> \o g
             k == Len(f) + 1
  <2>1. Combine(f, g) = c
    BY <1>2 DEF Combine
  <2>2. /\ c \in Seq(S) /\ Len(c) = k + Len(g) /\ DOMAIN c = 1..Len(c)
        /\ \A i \in 1..Len(f) : c[i] = f[i]
        /\ c[k] = Blank
        /\ \A i \in 1..Len(g) : c[k + i] = g[i]
    BY <1>0
  <2> HIDE DEF c
  <2>3. SubSeq(c, 1, k - 1) = f
    BY <1>0, <2>2
  <2>4. SubSeq(c, k + 1, Len(c)) = g
    BY <1>0, <2>2
  <2>5. Words(c) = Words(f) \cup Words(g)
    <3>1. ASSUME NEW i \in DOMAIN c, c[i] # Blank PROVE c[i] \in Words(f) \cup Words(g)
      <4>1. CASE i \in 1..Len(f)
        BY <1>0, <2>2, <3>1, <4>1 DEF Words
      <4>2. CASE i \notin 1..Len(f)
        <5>1. i # k /\ i - k \in 1..Len(g) /\ k + (i - k) = i
          BY <1>0, <2>2, <3>1, <4>2
        <5>2. c[i] = g[i - k]
          BY <2>2, <5>1
        <5> QED
          BY <1>0, <3>1, <5>1, <5>2 DEF Words
      <4> QED
        BY <4>1, <4>2
    <3>2. ASSUME NEW i \in DOMAIN f PROVE \E j \in DOMAIN c : c[j] = f[i]
      BY <1>0, <2>2
    <3>3. ASSUME NEW i \in DOMAIN g PROVE \E j \in DOMAIN c : c[j] = g[i]
      <4>1. k + i \in DOMAIN c
        BY <1>0, <2>2
      <4> QED
        BY <1>0, <2>2, <4>1
    <3> QED
      BY <3>1, <3>2, <3>3 DEF Words
  <2>6. Joined(c, f, g)
    <3>1. k \in DOMAIN c
      BY <1>0, <2>2
    <3> QED
      BY <2>2, <2>3, <2>4, <3>1 DEF Joined
  <2> QED
    BY <1>2, <2>1, <2>2, <2>5, <2>6
<1> QED
  BY <1>1, <1>2

LEMMA DocLines ==
  ASSUME NEW doc \in Found
  PROVE  doc.lines \in Seq(Range(doc.lines))
<1>1. CASE doc = Missing
  <2>1. doc.lines = <<>>
    BY <1>1 DEF Missing
  <2> QED
    BY <2>1
<1>2. CASE \E b \in Bodies : doc = Body(b)
  <2>1. doc.lines \in Bodies
    BY <1>2 DEF Body
  <2> QED
    BY <2>1, PromptAssumption
<1> QED
  BY <1>1, <1>2 DEF Found

(* What a fragment says of its two documents. *)
LEMMA FragmentFacts ==
  ASSUME NEW t \in Found, NEW p \in Found
  PROVE  LET f == Fragment(<<t, p>>)
         IN  /\ (f = <<>>) <=> (Words(t.lines) = {} /\ Words(p.lines) = {})
             /\ Words(f) = Words(t.lines) \cup Words(p.lines)
             /\ f # <<>> => SaysBoth(f, t.lines, p.lines)
<1> DEFINE S == Range(t.lines) \cup Range(p.lines) \cup {Blank}
           a == TrimBlankLines(t.lines)
           b == TrimBlankLines(p.lines)
           f == Combine(a, b)
<1>1. t.lines \in Seq(S) /\ p.lines \in Seq(S) /\ Blank \in S
  BY DocLines
<1>2. Fragment(<<t, p>>) = f
  BY DEF Fragment
<1> HIDE DEF S
<1>3. /\ a \in Seq(S)
      /\ Words(t.lines) = {} => a = <<>>
      /\ Words(t.lines) # {} => IsTrimmed(a, t.lines) /\ a # <<>>
      /\ Words(a) = Words(t.lines)
  BY <1>1, Trimmed
<1>4. /\ b \in Seq(S)
      /\ Words(p.lines) = {} => b = <<>>
      /\ Words(p.lines) # {} => IsTrimmed(b, p.lines) /\ b # <<>>
      /\ Words(b) = Words(p.lines)
  BY <1>1, Trimmed
<1> HIDE DEF a, b
<1>5. /\ Words(f) = Words(a) \cup Words(b)
      /\ a = <<>> => f = b
      /\ b = <<>> => f = a
      /\ a # <<>> /\ b # <<>> => Joined(f, a, b)
  <2>1. a \in Seq(S) /\ b \in Seq(S) /\ Blank \in S
    BY <1>1, <1>3, <1>4
  <2> QED
    BY <2>1, Combined
<1> HIDE DEF f
<1>6. (f = <<>>) <=> (Words(t.lines) = {} /\ Words(p.lines) = {})
  <2>1. CASE a # <<>> /\ b # <<>>
    <3>1. f # <<>>
      BY <1>5, <2>1 DEF Joined
    <3> QED
      BY <1>3, <2>1, <3>1
  <2>2. CASE a = <<>> \/ b = <<>>
    BY <1>3, <1>4, <1>5, <2>2
  <2> QED
    BY <2>1, <2>2
<1>7. ASSUME f # <<>> PROVE SaysBoth(f, t.lines, p.lines)
  <2>1. CASE a # <<>> /\ b # <<>>
    <3>1. IsTrimmed(a, t.lines) /\ IsTrimmed(b, p.lines) /\ Joined(f, a, b)
      BY <1>3, <1>4, <1>5, <2>1
    <3> QED
      BY <3>1 DEF Joined, SaysBoth
  <2>2. CASE a = <<>>
    <3>1. Words(t.lines) = {} /\ f = b /\ IsTrimmed(b, p.lines)
      BY <1>3, <1>4, <1>5, <1>7, <2>2
    <3> QED
      BY <3>1 DEF SaysBoth
  <2>3. CASE b = <<>> /\ a # <<>>
    <3>1. Words(p.lines) = {} /\ f = a /\ IsTrimmed(a, t.lines)
      BY <1>3, <1>4, <1>5, <2>3
    <3> QED
      BY <3>1 DEF SaysBoth
  <2> QED
    BY <2>1, <2>2, <2>3
<1>8. Words(f) = Words(t.lines) \cup Words(p.lines)
  BY <1>3, <1>4, <1>5
<1> QED
  BY <1>2, <1>6, <1>7, <1>8

LEMMA BodyFacts ==
  ASSUME NEW doc \in Found
  PROVE  /\ HasBody(doc) <=> Words(doc.lines) # {}
         /\ Contribution(doc) \in {"not found", "body present", "empty body"}
         /\ (Contribution(doc) = "body present") <=> (Words(doc.lines) # {})
<1>1. HasBody(doc) <=> Words(doc.lines) # {}
  BY DocLines, Trimmed DEF HasBody
<1>2. CASE doc = Missing
  <2>1. doc.kind = "Missing" /\ doc.lines = <<>>
    BY <1>2 DEF Missing
  <2>2. Words(doc.lines) = {}
    BY <2>1 DEF Words
  <2> QED
    BY <1>1, <2>1, <2>2 DEF Contribution
<1>3. CASE \E b \in Bodies : doc = Body(b)
  <2>1. doc.kind = "Body"
    BY <1>3 DEF Body
  <2> QED
    BY <1>1, <2>1 DEF Contribution
<1> QED
  BY <1>2, <1>3 DEF Found

-----------------------------------------------------------------------------
(* A section that was assembled from documents that were found. *)
IsAssembled(section) ==
    /\ section.state = "Assembled"
    /\ \E t \in Found, p \in Found : section.docs = <<t, p>>

Empty(section) == \A i \in 1..2 : Words(section.docs[i].lines) = {}
Said(section)  == Words(section.docs[1].lines) \cup Words(section.docs[2].lines)

LEMMA SectionCases ==
  ASSUME NEW section \in Sections
  PROVE  \/ section = NoSection /\ section.state = "None"
         \/ section.state = "Unresolved" /\ section.error # NoError
         \/ section.state = "Degraded" /\ section.error # NoError
         \/ IsAssembled(section)
<1>1. CASE section = NoSection
  BY <1>1 DEF NoSection, Section
<1>2. CASE section = Unresolved
  BY <1>2 DEF Unresolved, Section, Error, NoError
<1>3. CASE \E e \in Errors : section = Degraded(e)
  <2>1. PICK e \in Errors : section = Degraded(e)
    BY <1>3
  <2>2. section.state = "Degraded" /\ section.error = e
    BY <2>1 DEF Degraded, Section
  <2>3. e.kind \in ReadError
    BY DEF Errors, Error
  <2>4. NoError.kind = "None"
    BY DEF NoError, Error
  <2> QED
    BY <2>2, <2>3, <2>4 DEF ReadError
<1>4. CASE \E t \in Found, p \in Found : section = Assembled(t, p)
  <2>1. PICK t \in Found, p \in Found : section = Assembled(t, p)
    BY <1>4
  <2>2. section.state = "Assembled" /\ section.docs = <<t, p>>
    BY <2>1 DEF Assembled, Section
  <2> QED
    BY <2>2 DEF IsAssembled
<1> QED
  BY <1>1, <1>2, <1>3, <1>4 DEF Sections

(* The one block of a section, or why it has none. *)
IsBlock(block, source, section) ==
    /\ block.source = source
    /\ section.state # "None"
    /\ \/ /\ IsAssembled(section) /\ ~Empty(section)
          /\ block.notice = NoError
          /\ SaysBoth(block.text, section.docs[1].lines, section.docs[2].lines)
          /\ Words(block.text) = Said(section)
       \/ /\ section.state # "Assembled"
          /\ block.notice = section.error /\ section.error # NoError

LEMMA SectionBlocks ==
  ASSUME NEW source, NEW section \in Sections
  PROVE  \/ /\ Blocks(source, section) = <<>>
            /\ section.state = "None" \/ (IsAssembled(section) /\ Empty(section))
         \/ \E block : Blocks(source, section) = <<block>> /\ IsBlock(block, source, section)
<1>1. CASE section.state = "None"
  BY <1>1 DEF Blocks
<1>2. CASE section.state \in {"Unresolved", "Degraded"} /\ section.error # NoError
  <2> DEFINE block == [source |-> source, text |-> <<>>, notice |-> section.error]
  <2>1. Blocks(source, section) = <<block>>
    BY <1>2 DEF Blocks
  <2>2. IsBlock(block, source, section)
    BY <1>2 DEF IsBlock
  <2> QED
    BY <2>1, <2>2
<1>3. CASE IsAssembled(section)
  <2>1. PICK t \in Found, p \in Found : section.docs = <<t, p>>
    BY <1>3 DEF IsAssembled
  <2>2. /\ section.docs[1] = t /\ section.docs[2] = p /\ section.state = "Assembled"
    BY <1>3, <2>1 DEF IsAssembled
  <2>3. Empty(section) <=> Fragment(section.docs) = <<>>
    <3>1. Empty(section) <=> (Words(t.lines) = {} /\ Words(p.lines) = {})
      BY <2>2 DEF Empty
    <3> QED
      BY <2>1, <3>1, FragmentFacts
  <2>4. CASE Empty(section)
    BY <1>3, <2>2, <2>3, <2>4 DEF Blocks
  <2>5. CASE ~Empty(section)
    <3> DEFINE block == [source |-> source, text |-> Fragment(section.docs), notice |-> NoError]
    <3>1. Blocks(source, section) = <<block>>
      BY <2>2, <2>3, <2>5 DEF Blocks
    <3>2. /\ SaysBoth(block.text, t.lines, p.lines)
          /\ Words(block.text) = Words(t.lines) \cup Words(p.lines)
      BY <2>1, <2>3, <2>5, FragmentFacts
    <3>3. IsBlock(block, source, section)
      BY <1>3, <2>2, <2>5, <3>2 DEF IsBlock, Said
    <3> QED
      BY <3>1, <3>3
  <2> QED
    BY <2>4, <2>5
<1> QED
  BY <1>1, <1>2, <1>3, SectionCases
-----------------------------------------------------------------------------
AllBlocks == Blocks("Project", project) \o Blocks("Skill", skill)
AllLines  == ExplainLines("Project", project) \o ExplainLines("Skill", skill)

(* Each source was resolved if, and only if, it was asked for. *)
AsRequested ==
    \A source \in Sources : source \in Requested <=> SectionOf(source).state # "None"

(* What is printed, as a position in stdout for each source that speaks. *)
Speaks(source) == Blocks(source, SectionOf(source)) # <<>>

LEMMA BlockPositions ==
  ASSUME project \in Sections, skill \in Sections, stdout = AllBlocks
  PROVE  /\ \A source \in Sources :
               IF Speaks(source)
               THEN \E i \in DOMAIN stdout :
                       BlocksOf(source) = {i} /\ IsBlock(stdout[i], source, SectionOf(source))
               ELSE /\ BlocksOf(source) = {}
                    /\ \/ SectionOf(source).state = "None"
                       \/ IsAssembled(SectionOf(source)) /\ Empty(SectionOf(source))
         /\ \A i \in DOMAIN stdout : stdout[i].source \in Sources
         /\ \A i, j \in DOMAIN stdout :
               i < j => stdout[i].source = "Project" /\ stdout[j].source = "Skill"
<1> DEFINE P == Blocks("Project", project)
           K == Blocks("Skill", skill)
           Silent(source) == \/ SectionOf(source).state = "None"
                             \/ IsAssembled(SectionOf(source)) /\ Empty(SectionOf(source))
<1>1. \/ P = <<>> /\ Silent("Project")
      \/ \E block : P = <<block>> /\ IsBlock(block, "Project", project)
  BY SectionBlocks DEF SectionOf
<1>2. \/ K = <<>> /\ Silent("Skill")
      \/ \E block : K = <<block>> /\ IsBlock(block, "Skill", skill)
  BY SectionBlocks DEF SectionOf
<1>3. /\ Speaks("Project") <=> P # <<>>
      /\ Speaks("Skill") <=> K # <<>>
      /\ SectionOf("Project") = project /\ SectionOf("Skill") = skill
      /\ stdout = P \o K
  BY DEF Speaks, SectionOf, AllBlocks
<1>4. \A block, source, section : IsBlock(block, source, section) => block.source = source
  BY DEF IsBlock
<1> HIDE DEF P, K, Silent
<1>5. CASE P = <<>> /\ K = <<>>
  <2>1. stdout = <<>>
    BY <1>3, <1>5
  <2>2. BlocksOf("Project") = {} /\ BlocksOf("Skill") = {}
    BY <2>1 DEF BlocksOf
  <2> QED
    BY <1>1, <1>2, <1>3, <1>5, <2>1, <2>2 DEF Sources, Silent
<1>6. CASE P = <<>> /\ K # <<>>
  <2>1. PICK block : K = <<block>> /\ IsBlock(block, "Skill", skill)
    BY <1>2, <1>6
  <2>2. stdout = <<block>> /\ block.source = "Skill"
    BY <1>3, <1>4, <1>6, <2>1
  <2>3. DOMAIN stdout = {1} /\ stdout[1] = block
    BY <2>2
  <2>4. BlocksOf("Project") = {} /\ BlocksOf("Skill") = {1}
    BY <2>2, <2>3 DEF BlocksOf
  <2> QED
    BY <1>1, <1>3, <1>6, <2>1, <2>2, <2>3, <2>4 DEF Sources, Silent
<1>7. CASE P # <<>> /\ K = <<>>
  <2>1. PICK block : P = <<block>> /\ IsBlock(block, "Project", project)
    BY <1>1, <1>7
  <2>2. stdout = <<block>> /\ block.source = "Project"
    BY <1>3, <1>4, <1>7, <2>1
  <2>3. DOMAIN stdout = {1} /\ stdout[1] = block
    BY <2>2
  <2>4. BlocksOf("Project") = {1} /\ BlocksOf("Skill") = {}
    BY <2>2, <2>3 DEF BlocksOf
  <2> QED
    BY <1>2, <1>3, <1>7, <2>1, <2>2, <2>3, <2>4 DEF Sources, Silent
<1>8. CASE P # <<>> /\ K # <<>>
  <2>1. PICK block : P = <<block>> /\ IsBlock(block, "Project", project)
    BY <1>1, <1>8
  <2>2. PICK next : K = <<next>> /\ IsBlock(next, "Skill", skill)
    BY <1>2, <1>8
  <2>3. block.source = "Project" /\ next.source = "Skill"
    BY <1>4, <2>1, <2>2
  <2>4. DOMAIN stdout = {1, 2} /\ stdout[1] = block /\ stdout[2] = next
    <3> DEFINE S == {block, next}
    <3>1. P \in Seq(S) /\ K \in Seq(S) /\ Len(P) = 1 /\ Len(K) = 1
          /\ P[1] = block /\ K[1] = next
      BY <2>1, <2>2
    <3> HIDE DEF S
    <3>2. /\ P \o K \in Seq(S) /\ Len(P \o K) = 2
          /\ \A i \in 1..2 : (P \o K)[i] = IF i <= 1 THEN P[i] ELSE K[i - 1]
      <4>1. P \in Seq(S) /\ K \in Seq(S) /\ Len(P) = 1 /\ Len(K) = 1
        BY <3>1
      <4> QED
        BY <4>1, ConcatProperties
    <3>3. (P \o K)[1] = block /\ (P \o K)[2] = next
      BY <3>1, <3>2
    <3>4. DOMAIN (P \o K) = {1, 2}
      BY <3>2
    <3> QED
      BY <1>3, <3>3, <3>4
  <2>5. BlocksOf("Project") = {1} /\ BlocksOf("Skill") = {2}
    BY <2>3, <2>4 DEF BlocksOf
  <2> QED
    BY <1>3, <1>8, <2>1, <2>2, <2>3, <2>4, <2>5 DEF Sources
<1> QED
  BY <1>5, <1>6, <1>7, <1>8

LEMMA WholeFacts ==
  ASSUME project \in Sections, skill \in Sections, stdout = AllBlocks
  PROVE  TextIsWhole
<1>1. ASSUME NEW i \in DOMAIN stdout, stdout[i].notice = NoError
      PROVE  LET docs == SectionOf(stdout[i].source).docs
             IN  SaysBoth(stdout[i].text, docs[1].lines, docs[2].lines)
  <2>1. /\ stdout[i].source \in Sources /\ i \in BlocksOf(stdout[i].source)
    BY BlockPositions DEF BlocksOf
  <2>2. IsBlock(stdout[i], stdout[i].source, SectionOf(stdout[i].source))
    BY <2>1, BlockPositions
  <2> QED
    BY <1>1, <2>2 DEF IsBlock
<1> QED
  BY <1>1 DEF TextIsWhole

(* What is printed when all is printed. *)
LEMMA PrintedFacts ==
  ASSUME project \in Sections, skill \in Sections, stdout = AllBlocks, AsRequested,
         pc = "Explain" \/ (pc = "Ended" /\ exit = 0)
  PROVE  SourcesStandAlone
<1>1. ASSUME NEW source \in Sources
      PROVE  LET section == SectionOf(source)
                 silent  == \/ source \notin Requested
                            \/ /\ section.state = "Assembled"
                               /\ \A i \in 1..2 : Words(section.docs[i].lines) = {}
             IN  IF silent THEN BlocksOf(source) = {}
                 ELSE \E i \in DOMAIN stdout :
                         /\ BlocksOf(source) = {i}
                         /\ stdout[i].notice = IF section.state = "Assembled" THEN NoError
                                               ELSE section.error
                         /\ section.state # "Assembled" => section.error # NoError
  <2> DEFINE section == SectionOf(source)
  <2>1. source \notin Requested <=> section.state = "None"
    BY DEF AsRequested
  <2>2. Empty(section) <=> \A i \in 1..2 : Words(section.docs[i].lines) = {}
    BY DEF Empty
  <2>3. IsAssembled(section) => section.state = "Assembled"
    BY DEF IsAssembled
  <2> HIDE DEF section
  <2>4. CASE Speaks(source)
    <3>1. PICK i \in DOMAIN stdout : BlocksOf(source) = {i} /\ IsBlock(stdout[i], source, section)
      BY <2>4, BlockPositions DEF section
    <3>2. /\ section.state # "None"
          /\ \/ section.state = "Assembled" /\ ~Empty(section) /\ stdout[i].notice = NoError
             \/ /\ section.state # "Assembled"
                /\ stdout[i].notice = section.error /\ section.error # NoError
      BY <2>3, <3>1 DEF IsBlock
    <3> QED
      BY <2>1, <2>2, <3>1, <3>2 DEF section
  <2>5. CASE ~Speaks(source)
    <3>1. /\ BlocksOf(source) = {}
          /\ section.state = "None" \/ (section.state = "Assembled" /\ Empty(section))
      BY <2>3, <2>5, BlockPositions DEF section
    <3> QED
      BY <2>1, <2>2, <3>1 DEF section
  <2> QED
    BY <2>4, <2>5
<1>2. SourcesStandAlone
  <2>1. \A i, j \in DOMAIN stdout :
           i < j => stdout[i].source = "Project" /\ stdout[j].source = "Skill"
    BY BlockPositions
  <2> QED
    BY <1>1, <2>1 DEF SourcesStandAlone
<1> QED
  BY <1>2

-----------------------------------------------------------------------------
(* What --explain says of a section. *)
Ordinary == {"body present", "empty body", "not found"}

About(source, section, line) ==
    /\ line.source = source
    /\ line.state \in Ordinary =>
          LET doc == section.docs[IF line.level = "Team" THEN 1 ELSE 2]
          IN  /\ IsAssembled(section)
              /\ line.level \in Levels
              /\ (line.state = "body present") <=> (Words(doc.lines) # {})

LEMMA SectionLines ==
  ASSUME NEW source, NEW section \in Sections
  PROVE  LET lines == ExplainLines(source, section)
         IN  /\ lines \in Seq(Range(lines))
             /\ \A i \in DOMAIN lines : About(source, section, lines[i])
<1> DEFINE lines == ExplainLines(source, section)
           Fits(line) == About(source, section, line)
<1>1. \/ lines = <<>>
      \/ \E a : lines = <<a>> /\ Fits(a)
      \/ \E a, b : lines = <<a, b>> /\ Fits(a) /\ Fits(b)
  <2>1. CASE section.state = "None"
    BY <2>1 DEF ExplainLines
  <2>2. CASE section.state = "Unresolved"
    <3> DEFINE a == Line(source, "None", "invalid")
    <3>1. lines = <<a>>
      BY <2>2 DEF ExplainLines
    <3>2. Fits(a)
      BY DEF About, Line, Ordinary
    <3> QED
      BY <3>1, <3>2
  <2>3. CASE section.state = "Degraded"
    <3> DEFINE state == IF section.error.kind = "UnsafePath" THEN "unsafe" ELSE "unreadable"
               a == Line(source, "Team", state)
               b == Line(source, "Personal", state)
    <3>1. lines = <<a, b>>
      BY <2>3 DEF ExplainLines
    <3>2. Fits(a) /\ Fits(b)
      BY DEF About, Line, Ordinary
    <3> QED
      BY <3>1, <3>2
  <2>4. CASE IsAssembled(section)
    <3>1. PICK t \in Found, p \in Found : section.docs = <<t, p>>
      BY <2>4 DEF IsAssembled
    <3>2. section.docs[1] = t /\ section.docs[2] = p /\ section.state = "Assembled"
      BY <2>4, <3>1 DEF IsAssembled
    <3> DEFINE a == Line(source, "Team", Contribution(t))
               b == Line(source, "Personal", Contribution(p))
    <3>3. lines = <<a, b>>
      BY <3>2 DEF ExplainLines
    <3>4. /\ a.source = source /\ a.level = "Team" /\ a.state = Contribution(t)
          /\ b.source = source /\ b.level = "Personal" /\ b.state = Contribution(p)
      BY DEF Line
    <3> HIDE DEF a, b
    <3>5. /\ (Contribution(t) = "body present") <=> (Words(t.lines) # {})
          /\ (Contribution(p) = "body present") <=> (Words(p.lines) # {})
      BY BodyFacts
    <3>6. Fits(a) /\ Fits(b)
      BY <2>4, <3>2, <3>4, <3>5 DEF About, Levels
    <3> QED
      BY <3>3, <3>6
  <2> QED
    BY <2>1, <2>2, <2>3, <2>4, SectionCases
<1>2. \A i \in DOMAIN lines : Fits(lines[i])
  <2> HIDE DEF lines, Fits
  <2>1. CASE lines = <<>>
    BY <2>1
  <2>2. CASE \E a : lines = <<a>> /\ Fits(a)
    BY <2>2
  <2>3. CASE \E a, b : lines = <<a, b>> /\ Fits(a) /\ Fits(b)
    <3>1. PICK a, b : lines = <<a, b>> /\ Fits(a) /\ Fits(b)
      BY <2>3
    <3>2. DOMAIN lines = {1, 2} /\ lines[1] = a /\ lines[2] = b
      BY <3>1
    <3> QED
      BY <3>1, <3>2
  <2> QED
    BY <1>1, <2>1, <2>2, <2>3
<1>3. lines \in Seq(Range(lines))
  <2> HIDE DEF lines
  <2>1. CASE lines = <<>>
    BY <2>1
  <2>2. CASE \E a : lines = <<a>>
    <3>1. PICK a : lines = <<a>>
      BY <2>2
    <3>2. a \in Range(lines)
      BY <3>1 DEF Range
    <3> QED
      BY <3>1, <3>2
  <2>3. CASE \E a, b : lines = <<a, b>>
    <3>1. PICK a, b : lines = <<a, b>>
      BY <2>3
    <3>2. DOMAIN lines = {1, 2} /\ lines[1] = a /\ lines[2] = b
      BY <3>1
    <3>3. a \in Range(lines) /\ b \in Range(lines)
      BY <3>2 DEF Range
    <3> QED
      BY <3>1, <3>3
  <2> QED
    BY <1>1, <2>1, <2>2, <2>3
<1> QED
  BY <1>2, <1>3

LEMMA InConcat ==
  ASSUME NEW s, NEW t, s \in Seq(Range(s)), t \in Seq(Range(t)), NEW i \in DOMAIN (s \o t)
  PROVE  (\E j \in DOMAIN s : (s \o t)[i] = s[j]) \/ (\E j \in DOMAIN t : (s \o t)[i] = t[j])
<1> DEFINE S == Range(s) \cup Range(t)
<1>1. s \in Seq(S) /\ t \in Seq(S)
  OBVIOUS
<1> HIDE DEF S
<1>2. /\ DOMAIN s = 1..Len(s) /\ DOMAIN t = 1..Len(t) /\ Len(s) \in Nat /\ Len(t) \in Nat
      /\ DOMAIN (s \o t) = 1..(Len(s) + Len(t))
      /\ (s \o t)[i] = IF i <= Len(s) THEN s[i] ELSE t[i - Len(s)]
  BY <1>1
<1> QED
  BY <1>2

(* What is said when all is said. *)
LEMMA ExplainedFacts ==
  ASSUME project \in Sections, skill \in Sections, stdout = AllBlocks, stderr = AllLines
  PROVE  ExplainAgrees
<1> DEFINE P == ExplainLines("Project", project)
           K == ExplainLines("Skill", skill)
<1>1. ASSUME NEW i \in DOMAIN stderr, stderr[i].state \in Ordinary
      PROVE  LET section == SectionOf(stderr[i].source)
                 doc == section.docs[IF stderr[i].level = "Team" THEN 1 ELSE 2]
             IN  /\ stderr[i].source \in Sources
                 /\ IsAssembled(section)
                 /\ stderr[i].level \in Levels
                 /\ (stderr[i].state = "body present") <=> (Words(doc.lines) # {})
  <2>1. (\E j \in DOMAIN P : stderr[i] = P[j]) \/ (\E j \in DOMAIN K : stderr[i] = K[j])
    <3>1. P \in Seq(Range(P)) /\ K \in Seq(Range(K))
      BY SectionLines
    <3>2. stderr = P \o K
      BY DEF AllLines
    <3> HIDE DEF P, K
    <3> QED
      BY <3>1, <3>2, InConcat
  <2>2. CASE \E j \in DOMAIN P : stderr[i] = P[j]
    <3>1. PICK j \in DOMAIN P : stderr[i] = P[j]
      BY <2>2
    <3>2. SectionOf("Project") = project /\ "Project" \in Sources
      BY DEF SectionOf, Sources
    <3>3. About("Project", project, P[j])
      BY <3>1, SectionLines
    <3>4. About("Project", project, stderr[i])
      BY <3>1, <3>3
    <3> QED
      BY <1>1, <3>2, <3>4 DEF About
  <2>3. CASE \E j \in DOMAIN K : stderr[i] = K[j]
    <3>1. PICK j \in DOMAIN K : stderr[i] = K[j]
      BY <2>3
    <3>2. SectionOf("Skill") = skill /\ "Skill" \in Sources
      BY DEF SectionOf, Sources
    <3>3. About("Skill", skill, K[j])
      BY <3>1, SectionLines
    <3>4. About("Skill", skill, stderr[i])
      BY <3>1, <3>3
    <3> QED
      BY <1>1, <3>2, <3>4 DEF About
  <2> QED
    BY <2>1, <2>2, <2>3
<1>2. ASSUME NEW source \in Sources, IsAssembled(SectionOf(source))
      PROVE  UNION {Words(stdout[j].text) : j \in BlocksOf(source)} = Said(SectionOf(source))
  <2>1. CASE Speaks(source)
    <3>1. PICK i \in DOMAIN stdout :
             BlocksOf(source) = {i} /\ IsBlock(stdout[i], source, SectionOf(source))
      BY <2>1, BlockPositions
    <3>2. Words(stdout[i].text) = Said(SectionOf(source))
      BY <1>2, <3>1 DEF IsBlock, IsAssembled
    <3>3. \A x : {Words(stdout[j].text) : j \in {x}} = {Words(stdout[x].text)}
      OBVIOUS
    <3> QED
      BY <3>1, <3>2, <3>3
  <2>2. CASE ~Speaks(source)
    <3>1. BlocksOf(source) = {} /\ Empty(SectionOf(source))
      BY <1>2, <2>2, BlockPositions DEF IsAssembled
    <3>2. Said(SectionOf(source)) = {}
      BY <3>1 DEF Said, Empty
    <3> QED
      BY <3>1, <3>2
  <2> QED
    BY <2>1, <2>2
<1>3. ASSUME NEW i \in DOMAIN stderr, stderr[i].state \in Ordinary
      PROVE  LET line == stderr[i]
                 said == UNION {Words(stdout[j].text) :
                            j \in {k \in DOMAIN stdout : stdout[k].source = line.source}}
                 doc  == SectionOf(line.source).docs[IF line.level = "Team" THEN 1 ELSE 2]
             IN  line.state = "body present"
                 <=> Words(doc.lines) # {} /\ Words(doc.lines) \subseteq said
  <2> DEFINE line == stderr[i]
             doc  == SectionOf(line.source).docs[IF line.level = "Team" THEN 1 ELSE 2]
  <2>1. /\ line.source \in Sources
        /\ IsAssembled(SectionOf(line.source))
        /\ (line.state = "body present") <=> (Words(doc.lines) # {})
    BY <1>1, <1>3
  <2>2. UNION {Words(stdout[j].text) : j \in BlocksOf(line.source)} = Said(SectionOf(line.source))
    BY <1>2, <2>1
  <2>3. Words(doc.lines) \subseteq Said(SectionOf(line.source))
    BY DEF Said
  <2> HIDE DEF doc
  <2> QED
    BY <2>1, <2>2, <2>3 DEF BlocksOf, doc
<1> QED
  BY <1>3 DEF ExplainAgrees, Ordinary
-----------------------------------------------------------------------------
(* Before a prompt command begins, and in every other command. *)
Quiet ==
    /\ project = NoSection /\ skill = NoSection
    /\ stdout = <<>> /\ stderr = <<>>

Unavailable == <<Line("None", "None", "unavailable")>>

(* A prompt command at each of its steps: which sources have been resolved, *)
(* and that what it has printed is all they have to say.                    *)
Resolving ==
    /\ project.state # "None" => request.command = "context"
    /\ skill.state # "None" => request.skill # <<>>
    /\ pc = "Skill" => request.skill # <<>>
    /\ pc = "Project" => request.command = "context"
    /\ pc \in {"Name", "Skill", "Print"} /\ request.command = "context"
       => project.state # "None"
    /\ pc = "Print" /\ request.skill # <<>> => skill.state # "None"

Printing ==
    /\ pc \in {"Project", "Name", "Skill", "Print"} => stdout = <<>> /\ stderr = <<>>
    /\ stdout \in {<<>>, AllBlocks}
    /\ Printed => AsRequested /\ stdout = AllBlocks
    /\ pc = "Explain" => request.explain /\ stderr = <<>>
    /\ pc = "Ended" /\ exit = 0 => stderr \in {<<>>, Unavailable, AllLines}
    /\ pc = "Ended" /\ exit # 0 /\ stdout # <<>> => request.explain

PromptInv == Resolving /\ Printing

PromptTyped ==
    /\ request.command \in Prompts
    /\ team \in Found \cup {NotRead}
    /\ project \in Sections /\ skill \in Sections

LEMMA SectionFacts ==
  /\ NoSection \in Sections /\ NoSection.state = "None"
  /\ Unresolved \in Sections /\ Unresolved.state # "None"
  /\ \A kind \in ReadError, path \in Paths :
        /\ Degraded(Error(kind, path)) \in Sections
        /\ Degraded(Error(kind, path)).state # "None"
  /\ \A t \in Found, p \in Found :
        Assembled(t, p) \in Sections /\ Assembled(t, p).state # "None"
<1>1. NoSection.state = "None" /\ Unresolved.state # "None"
  BY DEF NoSection, Unresolved, Section
<1>2. \A e : Degraded(e).state # "None"
  BY DEF Degraded, Section
<1>3. \A t, p : Assembled(t, p).state # "None"
  BY DEF Assembled, Section
<1>4. \A kind \in ReadError, path \in Paths : Error(kind, path) \in Errors
  BY DEF Errors
<1> QED
  BY <1>1, <1>2, <1>3, <1>4 DEF Sections

(* What every source that was to be resolved by Print amounts to. *)
LEMMA PrintsAll ==
  ASSUME PromptTyped, Resolving, pc = "Print"
  PROVE  AsRequested
<1>1. request.command \in {"context", "instructions"}
  BY DEF PromptTyped, Prompts
<1> QED
  BY <1>1 DEF AsRequested, Requested, Resolving, Sources, SectionOf

LEMMA ResolvedKeeps ==
  ASSUME PromptTyped, PromptInv, request' = request,
         NEW source \in Sources, NEW section \in Sections, section.state # "None",
         pc = source \/ (pc = "Name" /\ source = "Skill" /\ request.skill # <<>>),
         Resolved(source, section)
  PROVE  PromptInv'
<1>1. CASE source = "Project"
  <2>1. /\ pc = "Project" /\ pc' = "Name" /\ project' = section
        /\ UNCHANGED <<skill, stdout, stderr, request>>
    BY <1>1 DEF Resolved
  <2> QED
    BY <2>1 DEF PromptInv, Resolving, Printing, Printed
<1>2. CASE source = "Skill"
  <2>1. /\ pc \in {"Skill", "Name"} /\ pc' = "Print" /\ skill' = section
        /\ request.skill # <<>>
        /\ UNCHANGED <<project, stdout, stderr, request>>
    BY <1>2 DEF Resolved, PromptInv, Resolving
  <2> QED
    BY <2>1 DEF PromptInv, Resolving, Printing, Printed
<1> QED
  BY <1>1, <1>2 DEF Sources

LEMMA FailedKeeps ==
  ASSUME PromptTyped, PromptInv, request' = request,
         NEW source \in Sources, NEW section \in Sections, section.state # "None",
         pc = source \/ (pc = "Name" /\ source = "Skill" /\ request.skill # <<>>),
         Failed(source, section)
  PROVE  PromptInv'
<1>1. CASE Resolved(source, section)
  BY <1>1, ResolvedKeeps
<1>2. CASE End(1) /\ UNCHANGED sectionVars
  <2>1. /\ pc' = "Ended" /\ exit' = 1
        /\ UNCHANGED <<project, skill, stdout, stderr, request>>
    BY <1>2 DEF End, sectionVars
  <2>2. stdout = <<>>
    BY DEF PromptInv, Printing, Sources
  <2> QED
    BY <2>1, <2>2 DEF PromptInv, Resolving, Printing, Printed
<1> QED
  BY <1>1, <1>2 DEF Failed

LEMMA PathFacts ==
  ASSUME PromptTyped, request.skill \in Skills,
         NEW source \in Sources, NEW level \in Levels
  PROVE  Path(source, level) \in Paths /\ <<".">> \in Paths
BY DEF PromptTyped, Path, Paths

LEMMA PromptInvStep ==
  ASSUME PromptTyped, PromptInv, request.skill \in Skills, PromptStep
  PROVE  PromptInv'
<1>0. request' = request
  BY DEF PromptStep, NoDirectory, ReadTeam, ReadPersonal, LocateSource, ParseName,
         PrintBlocks, Explain
<1>1. ASSUME NEW source \in Sources, NoDirectory(source) PROVE PromptInv'
  <2>1. Degraded(Error("Io", <<".">>)) \in Sections
        /\ Degraded(Error("Io", <<".">>)).state # "None"
    <3>1. "Io" \in ReadError /\ <<".">> \in Paths
      BY DEF ReadError, Paths
    <3> QED
      BY <3>1, SectionFacts
  <2> QED
    BY <1>0, <1>1, <2>1, FailedKeeps DEF NoDirectory
<1>2. ASSUME NEW source \in Sources, ReadTeam(source) PROVE PromptInv'
  <2>1. CASE \E kind \in ReadError : Failed(source, Degraded(Error(kind, Path(source, "Team"))))
    <3>1. PICK kind \in ReadError : Failed(source, Degraded(Error(kind, Path(source, "Team"))))
      BY <2>1
    <3>2. Path(source, "Team") \in Paths
      BY PathFacts DEF Levels
    <3>3. /\ Degraded(Error(kind, Path(source, "Team"))) \in Sections
          /\ Degraded(Error(kind, Path(source, "Team"))).state # "None"
      BY <3>2, SectionFacts
    <3> QED
      BY <1>0, <1>2, <3>1, <3>3, FailedKeeps DEF ReadTeam
  <2>2. CASE UNCHANGED <<pc, project, skill, stdout, stderr, exit>>
    BY <1>0, <2>2 DEF PromptInv, Resolving, Printing, Printed, AsRequested, Requested, SectionOf,
       AllBlocks, AllLines
  <2> QED
    BY <1>2, <2>1, <2>2 DEF ReadTeam
<1>3. ASSUME NEW source \in Sources, ReadPersonal(source) PROVE PromptInv'
  <2>1. CASE \E kind \in ReadError :
                Failed(source, Degraded(Error(kind, Path(source, "Personal"))))
    <3>1. PICK kind \in ReadError :
             Failed(source, Degraded(Error(kind, Path(source, "Personal"))))
      BY <2>1
    <3>2. Path(source, "Personal") \in Paths
      BY PathFacts DEF Levels
    <3>3. /\ Degraded(Error(kind, Path(source, "Personal"))) \in Sections
          /\ Degraded(Error(kind, Path(source, "Personal"))).state # "None"
      BY <3>2, SectionFacts
    <3> QED
      BY <1>0, <1>3, <3>1, <3>3, FailedKeeps DEF ReadPersonal
  <2>2. CASE \E doc \in Found : Resolved(source, Assembled(team, doc))
    <3>1. PICK doc \in Found : Resolved(source, Assembled(team, doc))
      BY <2>2
    <3>2. team \in Found
      BY <1>3 DEF ReadPersonal, PromptTyped
    <3>3. Assembled(team, doc) \in Sections /\ Assembled(team, doc).state # "None"
      BY <3>2, SectionFacts
    <3> QED
      BY <1>0, <1>3, <3>1, <3>3, ResolvedKeeps DEF ReadPersonal
  <2> QED
    BY <1>3, <2>1, <2>2 DEF ReadPersonal
<1>4. CASE LocateSource
  <2>1. UNCHANGED <<pc, request, project, skill, stdout, stderr, exit>>
    BY <1>4 DEF LocateSource, sectionVars
  <2> QED
    BY <2>1 DEF PromptInv, Resolving, Printing, Printed, AsRequested, Requested, SectionOf,
       AllBlocks, AllLines
<1>5. CASE ParseName
  <2>1. CASE Failed("Skill", Unresolved) /\ request.skill # <<>>
    BY <1>0, <1>5, <2>1, SectionFacts, FailedKeeps DEF ParseName, Sources
  <2>2. CASE /\ UNCHANGED <<sectionVars, exit>>
             /\ \/ request.skill = <<>> /\ pc' = "Print"
                \/ request.skill # <<>> /\ pc' = "Skill"
    <3>1. pc = "Name" /\ UNCHANGED <<project, skill, stdout, stderr>>
      BY <1>5, <2>2 DEF ParseName, sectionVars
    <3> QED
      BY <1>0, <2>2, <3>1 DEF PromptInv, Resolving, Printing, Printed
  <2> QED
    BY <1>5, <2>1, <2>2 DEF ParseName
<1>6. CASE PrintBlocks
  <2>1. pc = "Print" /\ AsRequested /\ stdout = <<>> /\ stderr = <<>>
    BY <1>6, PrintsAll DEF PrintBlocks, PromptInv, Printing
  <2>2. UNCHANGED <<request, project, skill, stderr>>
    BY <1>6 DEF PrintBlocks
  <2>3. AsRequested' /\ AllBlocks' = AllBlocks
    BY <2>1, <2>2 DEF AsRequested, Requested, SectionOf, AllBlocks
  <2>4. \/ /\ stdout' = AllBlocks
           /\ (request.explain /\ pc' = "Explain") \/ (pc' = "Ended" /\ exit' = 0)
        \/ stdout' = stdout /\ pc' = "Ended" /\ exit' = Panic
    BY <1>6 DEF PrintBlocks, AllBlocks, End
  <2>5. Panic # 0
    BY DEF Panic
  <2> QED
    BY <2>1, <2>2, <2>3, <2>4, <2>5 DEF PromptInv, Resolving, Printing, Printed
<1>7. CASE Explain
  <2>1. /\ pc = "Explain" /\ AsRequested /\ stdout = AllBlocks
        /\ stderr = <<>> /\ request.explain
    BY <1>7 DEF Explain, PromptInv, Printing, Printed
  <2>2. UNCHANGED <<request, project, skill, stdout>> /\ pc' = "Ended"
    BY <1>7 DEF Explain, End
  <2>3. AsRequested' /\ AllBlocks' = AllBlocks /\ AllLines' = AllLines
    BY <2>1, <2>2 DEF AsRequested, Requested, SectionOf, AllBlocks, AllLines
  <2>4. exit' = 0 => stderr' \in {Unavailable, AllLines}
    BY <1>7 DEF Explain, End, Unavailable, AllLines, Panic
  <2> QED
    BY <2>1, <2>2, <2>3, <2>4 DEF PromptInv, Resolving, Printing, Printed
<1> QED
  BY <1>1, <1>2, <1>3, <1>4, <1>5, <1>6, <1>7 DEF PromptStep

(* From the invariant, what the runs check. *)
LEMMA PromptSound ==
  ASSUME PromptTyped, PromptInv
  PROVE  SourcesStandAlone /\ TextIsWhole /\ ExplainAgrees
<1>0. stdout \in {<<>>, AllBlocks}
  BY DEF PromptInv, Printing
<1>1. TextIsWhole
  <2>1. CASE stdout = <<>>
    BY <2>1 DEF TextIsWhole
  <2> QED
    BY <1>0, <2>1, WholeFacts DEF PromptTyped
<1>2. SourcesStandAlone
  <2>1. CASE Printed
    <3>1. AsRequested /\ stdout = AllBlocks /\ (pc = "Explain" \/ (pc = "Ended" /\ exit = 0))
      BY <2>1 DEF PromptInv, Printing, Printed
    <3> QED
      BY <3>1, PrintedFacts DEF PromptTyped
  <2>2. CASE ~Printed
    BY <2>2 DEF SourcesStandAlone, PromptInv, Printing
  <2> QED
    BY <2>1, <2>2
<1>3. ExplainAgrees
  <2>1. CASE pc = "Ended" /\ exit = 0 /\ stderr = AllLines
    <3>1. stdout = AllBlocks
      BY <2>1 DEF PromptInv, Printing, Printed
    <3> QED
      BY <2>1, <3>1, ExplainedFacts DEF PromptTyped
  <2>2. CASE stderr = <<>>
    <3>1. DOMAIN stderr = {}
      BY <2>2
    <3> QED
      BY <3>1 DEF ExplainAgrees
  <2>3. CASE stderr = Unavailable
    <3>1. \A i \in DOMAIN stderr : stderr[i].state = "unavailable"
      <4>1. Unavailable = <<Line("None", "None", "unavailable")>>
        BY DEF Unavailable
      <4>2. Line("None", "None", "unavailable").state = "unavailable"
        BY DEF Line
      <4> HIDE DEF Unavailable
      <4> QED
        BY <2>3, <4>1, <4>2
    <3> QED
      BY <3>1 DEF ExplainAgrees
  <2>4. CASE ~(pc = "Ended" /\ exit = 0)
    BY <2>4 DEF ExplainAgrees
  <2> QED
    BY <2>1, <2>2, <2>3, <2>4 DEF PromptInv, Printing
<1> QED
  BY <1>1, <1>2, <1>3

(* A command that is no prompt prints nothing of this kind. *)
LEMMA QuietSound ==
  ASSUME Quiet, Printed => Requested = {}
  PROVE  SourcesStandAlone /\ TextIsWhole /\ ExplainAgrees
BY DEF Quiet, SourcesStandAlone, TextIsWhole, ExplainAgrees, BlocksOf
=============================================================================
