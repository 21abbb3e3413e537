---------------------------- MODULE DBusFilterProofs ----------------------------
(***************************************************************************)
(* Proofs about the filter of a DBusRunner, its ids and its pictures.      *)
(***************************************************************************)
EXTENDS DBusRunner, SequenceTheorems, WellFoundedInduction, TLAPS

LEMMA LeastElement ==
    ASSUME NEW T, T \subseteq Nat, T # {} PROVE \E x \in T : \A y \in T : x <= y
<1>1. IsWellFoundedOn(OpToRel(<, Nat), Nat)
  BY NatLessThanWellFounded
<1>. DEFINE R == OpToRel(<, Nat)
<1>2. \A x, y \in Nat : x < y => <<x, y>> \in R
  BY DEF OpToRel
<1>. HIDE DEF R
<1>3. PICK x \in T : \A y \in T : <<y, x>> \notin R
  BY <1>1, WFMin DEF R
<1>4. x \in Nat /\ \A y \in T : y \in Nat /\ ~(y < x)
  BY <1>2, <1>3, Zenon
<1>5. \A y \in T : x <= y
  BY <1>4
<1>. QED  BY <1>5, <1>3

\* The length of the shortest of the first i words.
Shorter(words, i, least) ==
    IF least = 0 \/ Len(words[i]) < least THEN Len(words[i]) ELSE least

Shortest(g, words, n) ==
    /\ g \in [0..n -> Nat] /\ g[0] = 0
    /\ \A i \in 1..n : g[i] = Shorter(words, i, g[i - 1])

LEMMA ShortestExists ==
    ASSUME NEW words, NEW n \in Nat, \A i \in 1..n : Len(words[i]) \in Nat
    PROVE  \E g : Shortest(g, words, n)
<1>. DEFINE Bad == {k \in 0..n : ~\E g : Shortest(g, words, k)}
<1>. SUFFICES ASSUME ~\E g : Shortest(g, words, n) PROVE FALSE
  OBVIOUS
<1>0. n \in Bad
  OBVIOUS
<1>1. PICK m \in Bad : \A k \in Bad : m <= k
  <2>1. Bad \subseteq Nat
    OBVIOUS
  <2>. HIDE DEF Bad
  <2>. QED  BY <1>0, <2>1, LeastElement
<1>2. m \in 0..n /\ ~\E g : Shortest(g, words, m)
  BY <1>1
<1>3. m # 0
  <2>1. Shortest([i \in 0..0 |-> 0], words, 0)
    BY DEF Shortest
  <2>. QED  BY <1>2, <2>1
<1>4. m - 1 \in 0..n /\ m - 1 \notin Bad
  BY <1>1, <1>2, <1>3
<1>5. PICK g : Shortest(g, words, m - 1)
  BY <1>4
<1>. DEFINE h == [i \in 0..m |-> IF i < m THEN g[i] ELSE Shorter(words, m, g[m - 1])]
<1>6. g \in [0..(m - 1) -> Nat] /\ g[0] = 0
      /\ \A i \in 1..(m - 1) : g[i] = Shorter(words, i, g[i - 1])
  BY <1>5 DEF Shortest
<1>7. Shorter(words, m, g[m - 1]) \in Nat
  <2>1. g[m - 1] \in Nat /\ Len(words[m]) \in Nat
    BY <1>2, <1>3, <1>6
  <2>. QED  BY <2>1 DEF Shorter
<1>8. h \in [0..m -> Nat] /\ h[0] = 0 /\ h[m] = Shorter(words, m, g[m - 1])
      /\ \A i \in 0..(m - 1) : h[i] = g[i]
  BY <1>2, <1>3, <1>6, <1>7
<1>. HIDE DEF h
<1>9. ASSUME NEW i \in 1..m PROVE h[i] = Shorter(words, i, h[i - 1])
  <2>1. CASE i = m
    <3>1. h[m - 1] = g[m - 1]
      BY <1>2, <1>3, <1>8
    <3>. QED  BY <1>8, <2>1, <3>1
  <2>2. CASE i # m
    <3>1. i \in 1..(m - 1) /\ h[i] = g[i] /\ h[i - 1] = g[i - 1]
      BY <1>2, <1>8, <2>2
    <3>. QED  BY <1>6, <3>1
  <2>. QED  BY <2>1, <2>2
<1>10. Shortest(h, words, m)
  BY <1>8, <1>9 DEF Shortest
<1>. QED  BY <1>2, <1>10
\* The recursive function of WordsMin is defined.
LEMMA WordsMinDefined ==
    ASSUME NEW words, Len(words) \in Nat, \A i \in 1..Len(words) : Len(words[i]) \in Nat
    PROVE  \E s : /\ WordsMin(words) = s[Len(words)]
                  /\ s[0] = 0
                  /\ \A i \in 1..Len(words) : s[i] = Shorter(words, i, s[i - 1])
<1>. DEFINE n == Len(words)
            F(f) == [i \in 0..n |-> IF i = 0 THEN 0
                                    ELSE IF f[i - 1] = 0 \/ Len(words[i]) < f[i - 1]
                                         THEN Len(words[i]) ELSE f[i - 1]]
            s == CHOOSE f : f = F(f)
<1>1. PICK g : Shortest(g, words, n)
  BY ShortestExists
<1>2. g = F(g)
  BY <1>1 DEF Shortest, Shorter
<1>3. WordsMin(words) = s[n]
  BY DEF WordsMin
<1>. HIDE DEF F
<1>4. s = F(s)
  BY <1>2
<1>. HIDE DEF s
<1>5. s[0] = 0 /\ \A i \in 1..n : s[i] = Shorter(words, i, s[i - 1])
  BY <1>4 DEF F, Shorter
<1>. QED  BY <1>3, <1>5

\* From a word on after which no word is empty the minimum is not longer than that word.
LEMMA WordsMinLeast ==
    ASSUME NEW words, Len(words) \in Nat, \A i \in 1..Len(words) : Len(words[i]) \in Nat,
           NEW k \in 1..Len(words), \A j \in k..Len(words) : Len(words[j]) > 0
    PROVE  WordsMin(words) \in Nat /\ WordsMin(words) <= Len(words[k])
<1>. DEFINE n == Len(words)
<1>1. PICK s : /\ WordsMin(words) = s[n] /\ s[0] = 0
               /\ \A i \in 1..n : s[i] = Shorter(words, i, s[i - 1])
  BY WordsMinDefined
<1>. DEFINE Good(i) == s[i] \in Nat /\ (i >= k => s[i] > 0 /\ s[i] <= Len(words[k]))
            Bad == {i \in 0..n : ~Good(i)}
<1>2. Bad = {}
  <2>. SUFFICES ASSUME Bad # {} PROVE FALSE
    OBVIOUS
  <2>1. PICK m \in Bad : \A i \in Bad : m <= i
    <3>1. Bad \subseteq Nat
      OBVIOUS
    <3>. HIDE DEF Bad
    <3>. QED  BY <3>1, LeastElement
  <2>2. m \in 0..n /\ ~Good(m)
    BY <2>1
  <2>3. m # 0
    BY <1>1, <2>2
  <2>4. m - 1 \in 0..n /\ Good(m - 1)
    BY <2>1, <2>2, <2>3
  <2>5. s[m] = Shorter(words, m, s[m - 1]) /\ Len(words[m]) \in Nat /\ Len(words[k]) \in Nat
    BY <1>1, <2>2, <2>3
  <2>6. CASE m < k
    <3>1. s[m] \in Nat
      BY <2>4, <2>5 DEF Shorter
    <3>. QED  BY <2>2, <2>6, <3>1
  <2>7. CASE m = k
    <3>1. s[m - 1] \in Nat /\ Len(words[m]) > 0 /\ Len(words[k]) = Len(words[m])
      BY <2>2, <2>4, <2>7
    <3>2. s[m] \in Nat /\ s[m] > 0 /\ s[m] <= Len(words[m])
      BY <2>5, <3>1 DEF Shorter
    <3>. QED  BY <2>2, <3>1, <3>2
  <2>8. CASE m > k
    <3>1. /\ s[m - 1] \in Nat /\ s[m - 1] > 0 /\ s[m - 1] <= Len(words[k])
          /\ Len(words[m]) > 0
      BY <2>2, <2>4, <2>8
    <3>2. s[m] \in Nat /\ s[m] > 0 /\ s[m] <= Len(words[k])
      BY <2>5, <3>1 DEF Shorter
    <3>. QED  BY <2>2, <3>2
  <2>. QED  BY <2>2, <2>6, <2>7, <2>8
<1>3. Good(n)
  BY <1>2
<1>. QED  BY <1>1, <1>3

Fit(f, words) == f = [min |-> WordsMin(words), regex |-> WordsRegex(words)]

LEMMA WordsAccepted ==
    ASSUME NEW words \in Seq(Seq(Chars)), NEW f, Fit(f, words), NEW i \in DOMAIN words,
           words[i] # <<>>, \A j \in DOMAIN words : words[j] = <<>> => j < i,
           NEW term \in Seq(Chars),
           Len(words[i]) <= Len(term), SubSeq(term, 1, Len(words[i])) = words[i]
    PROVE  Accepts(f, term)
<1>1. /\ Len(words) \in Nat /\ DOMAIN words = 1..Len(words) /\ Len(term) \in Nat
      /\ \A j \in 1..Len(words) : words[j] \in Seq(Chars)
  BY ElementOfSeq
<1>2. /\ \A j \in 1..Len(words) : Len(words[j]) \in Nat
      /\ \A j \in i..Len(words) : Len(words[j]) > 0
  <2>1. ASSUME NEW j \in i..Len(words) PROVE Len(words[j]) > 0
    <3>1. j \in DOMAIN words /\ ~(j < i)
      BY <1>1, <2>1
    <3>2. words[j] # <<>> /\ words[j] \in Seq(Chars)
      BY <1>1, <3>1
    <3>. QED  BY <3>2, EmptySeq
  <2>. QED  BY <1>1, <2>1
<1>3. Len(term) >= f.min
  <2>1. WordsMin(words) \in Nat /\ WordsMin(words) <= Len(words[i])
    BY <1>1, <1>2, WordsMinLeast
  <2>. QED  BY <1>1, <1>2, <2>1 DEF Fit
<1>. DEFINE spelt == {j \in DOMAIN words : words[j] # <<>>}
            first == CHOOSE j \in spelt : \A k \in spelt : j <= k
            p == [word |-> words[i], anchored |-> i = first]
<1>4. p \in f.regex
  <2>1. i \in spelt /\ spelt \subseteq Nat
    BY <1>1
  <2>2. \E j \in spelt : \A k \in spelt : j <= k
    <3>. HIDE DEF spelt
    <3>. QED  BY <2>1, LeastElement
  <2>3. first <= i
    <3>. HIDE DEF spelt
    <3>. QED  BY <2>1, <2>2
  <2>4. f.regex = {[word |-> words[j], anchored |-> j = first] :
                        j \in {k \in DOMAIN words : first <= k}}
    BY <2>1 DEF Fit, WordsRegex
  <2>. HIDE DEF first
  <2>. QED  BY <2>3, <2>4
<1>. HIDE DEF first
<1>5. Matches(p, term)
  <2>1. 0 \in 0..(Len(term) - Len(words[i])) /\ 0 + 1 = 1 /\ 0 + Len(words[i]) = Len(words[i])
    BY <1>1, <1>2
  <2>2. SubSeq(term, 0 + 1, 0 + Len(words[i])) = words[i]
    BY <2>1
  <2>. QED  BY <2>1, <2>2 DEF Matches
<1>. HIDE DEF p
<1>. QED  BY <1>3, <1>4, <1>5 DEF Accepts, HasMatchRegex

-----------------------------------------------------------------------------

\* The filter is the one of the trigger words if there are any.
FilterFits ==
    \/ triggerWords = <<>>
    \/ triggerWords \in Seq(Seq(Chars)) /\ Fit(filter, triggerWords)

LEMMA FitsInv == FilterFits /\ [Next]_vars => FilterFits'
<1>. SUFFICES ASSUME FilterFits, [Next]_vars PROVE FilterFits'
  OBVIOUS
<1>1. CASE UNCHANGED <<filter, triggerWords>>
  BY <1>1 DEF FilterFits
<1>2. ASSUME NEW c \in calls, NEW config \in Configs, ConfigReply(c, config) PROVE FilterFits'
  <2>1. /\ filter' = Configured(filter, config)
        /\ triggerWords' = IF {"words", "min", "regex"} \cap DOMAIN config = {} THEN triggerWords
                           ELSE Key(config, "words", <<>>)
    BY <1>2 DEF ConfigReply
  <2>2. CASE "words" \in DOMAIN config
    <3>1. triggerWords' = config.words
      BY <2>1, <2>2 DEF Key
    <3>. QED  BY <2>1, <2>2, <3>1, ConfigsAssumption
         DEF FilterFits, Fit, Configured, SetTriggerWords, SetMinLetterCount, SetMatchRegex
  <2>3. CASE "words" \notin DOMAIN config /\ {"min", "regex"} \cap DOMAIN config # {}
    BY <2>1, <2>3 DEF FilterFits, Key
  <2>4. CASE {"words", "min", "regex"} \cap DOMAIN config = {}
    <3>1. triggerWords' = triggerWords
      BY <2>1, <2>4
    <3>2. filter' = [min |-> filter.min, regex |-> filter.regex]
      BY <2>1, <2>4 DEF Configured, Key, SetMinLetterCount, SetMatchRegex
    <3>3. CASE triggerWords = <<>>
      BY <3>1, <3>3 DEF FilterFits
    <3>4. CASE triggerWords \in Seq(Seq(Chars)) /\ Fit(filter, triggerWords)
      <4>1. filter' = filter
        BY <3>2, <3>4 DEF Fit
      <4>. QED  BY <3>1, <3>4, <4>1 DEF FilterFits
    <3>. QED  BY <3>3, <3>4 DEF FilterFits
  <2>. QED  BY <2>2, <2>3, <2>4
<1>3. \/ UNCHANGED <<filter, triggerWords>>
      \/ \E c \in calls, config \in Configs : ConfigReply(c, config)
  BY DEF Next, vars, configVars, OwnerChanges, ServiceOwnerChanged, RunInit,
         ReloadConfigurationInternal, Watch, AnyQuery, LaunchQuery, LaunchWithoutJob, Reset,
         Teardown, MatchInternal, StartJob, AnyReply, Reply, ConfigError, ActionsReply, MatchReply
<1>. QED  BY <1>1, <1>2, <1>3

\* For any trigger words, letter counts and regular expressions that come in any number
\* of Config replies: a query that starts with a trigger word passes the filter, unless
\* that word comes before an empty one.
THEOREM TriggersTheorem == Spec => []TriggersAccepted
<1>1. Init => FilterFits
  BY DEF Init, FilterFits
<1>2. FilterFits => TriggersAccepted
  <2>. SUFFICES ASSUME FilterFits, NEW i \in DOMAIN triggerWords, NEW term \in Terms,
                       triggerWords[i] # <<>>,
                       \A j \in DOMAIN triggerWords : triggerWords[j] = <<>> => j < i,
                       Len(triggerWords[i]) <= Len(term),
                       SubSeq(term, 1, Len(triggerWords[i])) = triggerWords[i]
                PROVE  Accepts(filter, term)
    BY DEF TriggersAccepted
  <2>1. triggerWords # <<>>
    OBVIOUS
  <2>2. term \in Seq(Chars)
    BY TextsAssumption
  <2>. QED  BY <2>1, <2>2, WordsAccepted DEF FilterFits
<1>. QED  BY <1>1, <1>2, FitsInv, PTL DEF Spec

\* The separator that setId inserts is cut off again.
LEMMA IdKept ==
    ASSUME NEW id \in Seq(Chars), ~(meta.unique /\ id = <<>>) 
    PROVE  RunId(MatchId(SetId(SetData(NewMatch, <<>>), id))) = id
<1>. DEFINE match == SetId(SetData(NewMatch, <<>>), id)
<1>1. CASE meta.unique
  <2>1. match.id = id
    BY <1>1 DEF SetId
  <2>. QED  BY <1>1, <2>1 DEF RunId, MatchId
<1>2. CASE ~meta.unique
  <2>. DEFINE mark == RunnerId \o <<"_">>
              whole == mark \o id
              n == Len(RunnerId)
  <2>1. id \in Seq(Chars) /\ RunnerId \in Seq(Chars) /\ n \in Nat /\ Len(id) \in Nat
    <3>1. id \in Seq(Chars) /\ RunnerId \in Seq(Chars)
      BY TextsAssumption, Zenon
    <3>. QED  BY <3>1
  <2>2. mark \in Seq(Chars) /\ Len(mark) = n + 1
    <3>. DEFINE sep == <<"_">>
    <3>1. sep \in Seq(Chars) /\ Len(sep) = 1
      <4>. DEFINE c == "_"
      <4>1. c \in Chars
        BY TextsAssumption, Zenon
      <4>. HIDE DEF c
      <4>2. <<c>> \in Seq(Chars) /\ Len(<<c>>) = 1
        BY <4>1
      <4>. QED  BY <4>2, Zenon DEF c, sep
    <3>. HIDE DEF sep
    <3>2. RunnerId \o sep \in Seq(Chars) /\ Len(RunnerId \o sep) = Len(RunnerId) + Len(sep)
      BY <2>1, <3>1, ConcatProperties
    <3>. QED  BY <2>1, <3>1, <3>2 DEF sep
  <2>. HIDE DEF mark
  <2>3. /\ whole \in Seq(Chars) /\ Len(whole) = n + 1 + Len(id)
        /\ \A i \in 1..Len(id) : whole[n + 1 + i] = id[i]
    <3>1. /\ whole \in Seq(Chars) /\ Len(whole) = Len(mark) + Len(id)
          /\ \A i \in 1..(Len(mark) + Len(id)) :
                  whole[i] = IF i <= Len(mark) THEN mark[i] ELSE id[i - Len(mark)]
      BY <2>1, <2>2, ConcatProperties
    <3>. HIDE DEF whole
    <3>2. ASSUME NEW i \in 1..Len(id) PROVE whole[n + 1 + i] = id[i]
      <4>1. /\ n + 1 + i \in 1..(Len(mark) + Len(id)) /\ ~(n + 1 + i <= Len(mark))
            /\ (n + 1 + i) - Len(mark) = i
        BY <2>1, <2>2
      <4>. QED  BY <3>1, <4>1
    <3>. QED  BY <2>2, <3>1, <3>2
  <2>. HIDE DEF whole
  <2>4. RunId(MatchId(match)) = SubSeq(whole, n + 2, Len(whole))
    <3>1. match.id = whole
      BY <1>2 DEF SetId, whole, mark
    <3>2. whole # <<>>
      BY <2>1, <2>3
    <3>. HIDE DEF match
    <3>. QED  BY <1>2, <3>1, <3>2 DEF RunId, MatchId
  <2>. DEFINE cut == SubSeq(whole, n + 2, Len(whole))
  <2>5. /\ cut \in Seq(Chars) /\ Len(cut) = Len(id)
        /\ \A i \in 1..Len(id) : cut[i] = whole[n + 1 + i]
    BY <2>1, <2>3
  <2>. HIDE DEF cut
  <2>6. cut = id
    BY <2>1, <2>3, <2>5, SeqEqual
  <2>. QED  BY <2>4, <2>6 DEF cut
<1>. QED  BY <1>1, <1>2

\* For any plugin id, matches and lists of actions: the service that found the match gets
\* back the id it gave, with the action that was chosen.
THEOREM IdsTheorem == Spec => []RunsWhatWasFound
<1>1. RunsWhatWasFound
  <2>. SUFFICES ASSUME NEW s \in Services, NEW remote \in Remotes, NEW token \in BOOLEAN,
                       NEW action, NEW match,
                       match = SelectAction(ConvertMatch(s, remote), action),
                       ~(meta.unique /\ remote.id = <<>>),
                       NEW sent, sent = Run(match, token)
                PROVE  sent[Len(sent)] = [method |-> "Run", service |-> s,
                                          id |-> remote.id, action |-> action]
    BY DEF RunsWhatWasFound
  <2>1. /\ match.data = s /\ match.selectedAction = action
        /\ match.id = MatchId(SetId(SetData(NewMatch, <<>>), remote.id))
    BY DEF ConvertMatch, SelectAction
  <2>2. RunId(match.id) = remote.id
    <3>1. remote.id \in Seq(Chars)
      BY TextsAssumption
    <3>. QED  BY <2>1, <3>1, IdKept
  <2>. DEFINE run == [method |-> "Run", service |-> s, id |-> remote.id, action |-> action]
              ask == [method |-> "SetActivationToken", service |-> s]
  <2>3. sent = IF token THEN <<ask, run>> ELSE <<run>>
    BY <2>1, <2>2 DEF Run
  <2>. HIDE DEF run, ask
  <2>4. sent[Len(sent)] = run
    BY <2>3
  <2>. QED  BY <2>4 DEF run
<1>. QED  BY <1>1, PTL

-----------------------------------------------------------------------------
(* Pictures *)

LEMMA LinesAscend ==
    ASSUME NEW stride \in Nat, NEW y \in Nat, NEW z \in 0..y PROVE z * stride <= y * stride
<1>. DEFINE d == y - z
<1>1. d \in Nat /\ y = z + d /\ z \in Nat
  OBVIOUS
<1>. HIDE DEF d
<1>2. y * stride = z * stride + d * stride /\ d * stride >= 0
  BY <1>1
<1>3. z * stride \in Int /\ d * stride \in Int
  BY <1>1
<1>. QED  BY <1>2, <1>3

\* However large a picture, its stride and its data are: decodeImage copies exactly the
\* lines that the data hold, which are its first ones, and reads no byte beyond the data.
THEOREM ImageTheorem ==
    ASSUME NEW image, Supported(image), image.width \in Int, image.height \in Int,
           image.rowStride \in Int, image.length \in Nat
    PROVE  LET lines == DecodeImage(image).lines
           IN  /\ lines = {y \in 0..(image.height - 1) : Complete(image, y)}
               /\ \A y \in lines : 0..y \subseteq lines
               /\ \A y \in lines : BytesRead(image, y) \subseteq 0..(image.length - 1)
<1>. DEFINE stride == image.rowStride
            line == image.channels * image.width
            lines == DecodeImage(image).lines
<1>1. /\ image.height \in Nat \ {0} /\ stride \in Nat /\ stride > 0
      /\ line \in Nat /\ line > 0 /\ image.length \in Nat
  <2>1. line = 3 * image.width \/ line = 4 * image.width
    BY DEF Supported
  <2>. HIDE DEF line
  <2>. QED  BY <2>1 DEF Supported
<1>2. lines = {y \in 0..(image.height - 1) : \A z \in 0..y : Complete(image, z)}
  BY DEF DecodeImage
<1>3. ASSUME NEW y \in 0..(image.height - 1), NEW z \in 0..y, Complete(image, y)
      PROVE  Complete(image, z)
  <2>1. y * stride + line <= image.length
    BY <1>3 DEF Complete
  <2>2. y \in Nat /\ z \in Nat
    BY <1>1
  <2>3. z * stride <= y * stride
    BY <1>1, <2>2, LinesAscend
  <2>4. z * stride \in Int /\ y * stride \in Int
    BY <1>1, <2>2
  <2>. HIDE DEF line, stride
  <2>5. z * stride + line <= image.length
    BY <1>1, <2>1, <2>3, <2>4
  <2>. QED  BY <2>5 DEF Complete, line, stride
<1>4. lines = {y \in 0..(image.height - 1) : Complete(image, y)}
  <2>. HIDE DEF lines
  <2>1. ASSUME NEW y \in 0..(image.height - 1) PROVE y \in 0..y
    BY <1>1
  <2>. QED  BY <1>2, <1>3, <2>1
<1>5. ASSUME NEW y \in lines PROVE 0..y \subseteq lines
  <2>. HIDE DEF lines
  <2>1. y \in 0..(image.height - 1) /\ Complete(image, y)
    BY <1>4, <1>5
  <2>2. \A z \in 0..y : z \in 0..(image.height - 1) /\ Complete(image, z)
    BY <1>1, <1>3, <2>1
  <2>. QED  BY <1>4, <2>2
<1>6. ASSUME NEW y \in lines PROVE BytesRead(image, y) \subseteq 0..(image.length - 1)
  <2>. HIDE DEF lines
  <2>1. y \in Nat /\ y * stride + line <= image.length
    BY <1>1, <1>4, <1>6 DEF Complete
  <2>2. y * stride \in Nat
    BY <1>1, <2>1
  <2>3. BytesRead(image, y) = (y * stride)..(y * stride + line - 1)
    BY DEF BytesRead
  <2>. HIDE DEF line, stride
  <2>. DEFINE from == y * stride
  <2>. HIDE DEF from
  <2>4. from \in Nat /\ from + line <= image.length /\ BytesRead(image, y) = from..(from + line - 1)
    BY <2>1, <2>2, <2>3 DEF from
  <2>. QED  BY <1>1, <2>4
<1>. HIDE DEF lines
<1>. QED  BY <1>4, <1>5, <1>6 DEF lines

=============================================================================
