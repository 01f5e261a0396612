-------------------------- MODULE PageLayout_proofs --------------------------
(***************************************************************************)
(* Lemmas on the page operations: each keeps a page well typed, its index  *)
(* exact, its arrays aligned, and its columns in number.                   *)
(***************************************************************************)
EXTENDS PageLayout, FiniteSetTheorems, TLAPS

\* The number of columns of a type is a natural number.
LEMMA ColumnsOfTypeNat ==
  ASSUME NEW schema, NEW S, schema \in Seq(S), NEW t
  PROVE  ColumnsOfType(schema, t) \in Nat
<1>. DEFINE C == {i \in DOMAIN schema : schema[i].type = t}
<1>1. DOMAIN schema = 1..Len(schema) /\ Len(schema) \in Nat
  OBVIOUS
<1>2. IsFiniteSet(1..Len(schema))
  BY <1>1, FS_Interval
<1>3. IsFiniteSet(C)
  BY <1>1, <1>2, FS_Subset
<1>. QED
  BY <1>3, FS_CardinalityType DEF ColumnsOfType

\* A function on 1..n is a sequence of length n.
LEMMA FunctionIsSeq ==
  ASSUME NEW n \in Nat, NEW S, NEW f \in [1..n -> S]
  PROVE  f \in Seq(S) /\ Len(f) = n /\ DOMAIN f = 1..n
OBVIOUS

\* Overwriting an entry, in the domain or not, keeps type and length.
LEMMA ExceptIsSeq ==
  ASSUME NEW S, NEW seq \in Seq(S), NEW i, NEW v \in S
  PROVE  /\ [seq EXCEPT ![i] = v] \in Seq(S)
         /\ Len([seq EXCEPT ![i] = v]) = Len(seq)
<1>. DEFINE new == [seq EXCEPT ![i] = v]
<1>1. Len(seq) \in Nat /\ seq \in [1..Len(seq) -> S]
  OBVIOUS
<1>2. new \in [1..Len(seq) -> S]
  BY <1>1
<1>. HIDE DEF new
<1>. QED
  BY <1>1, <1>2, FunctionIsSeq DEF new

\* A page that wakes up is well typed and coherent.
LEMMA NewPageCoherent ==
  ASSUME NEW schema, NEW S, schema \in Seq(S), NEW K, NEW V
  PROVE  /\ IsPage(NewPage(schema), K, V)
         /\ IndexExact(NewPage(schema))
         /\ Aligned(NewPage(schema))
         /\ FitsSchema(NewPage(schema), schema)
         /\ DOMAIN NewPage(schema).row_map = {}
<1>. DEFINE page == NewPage(schema)
            array(t) == [c \in 1..ColumnsOfType(schema, t) |-> << >>]
<1>1. /\ page.row_map = [k \in {} |-> 0]
      /\ page.row_keys = << >>
      /\ page.cols = [t \in ColumnTypes |-> array(t)]
      /\ page = [row_map |-> page.row_map, row_keys |-> page.row_keys, cols |-> page.cols]
  BY DEF NewPage
<1>2. \A t : /\ array(t) \in Seq(Seq(V))
             /\ Len(array(t)) = ColumnsOfType(schema, t)
             /\ \A c \in DOMAIN array(t) : array(t)[c] = << >>
  <2>. TAKE t
  <2>1. ColumnsOfType(schema, t) \in Nat
    BY ColumnsOfTypeNat
  <2>2. array(t) \in [1..ColumnsOfType(schema, t) -> Seq(V)]
    OBVIOUS
  <2>. QED
    BY <2>1, <2>2, FunctionIsSeq
<1>. HIDE DEF page, array
<1>3. IsPage(page, K, V)
  BY <1>1, <1>2 DEF IsPage
<1>4. IndexExact(page)
  BY <1>1 DEF IndexExact
<1>5. Aligned(page)
  BY <1>1, <1>2 DEF Aligned
<1>6. FitsSchema(page, schema)
  BY <1>1, <1>2 DEF FitsSchema
<1>. QED
  BY <1>1, <1>3, <1>4, <1>5, <1>6 DEF page

\* insert of a new key.
LEMMA InsertRowCoherent ==
  ASSUME NEW K, NEW V, Zero \in V, NEW page, IsPage(page, K, V),
         NEW k \in K, k \notin DOMAIN page.row_map, IndexExact(page)
  PROVE  /\ IsPage(InsertRow(page, k), K, V)
         /\ IndexExact(InsertRow(page, k))
         /\ Aligned(page) => Aligned(InsertRow(page, k))
         /\ \A schema : FitsSchema(page, schema) => FitsSchema(InsertRow(page, k), schema)
         /\ DOMAIN InsertRow(page, k).row_map = DOMAIN page.row_map \cup {k}
         /\ InsertRow(page, k).row_keys # << >>
<1>. DEFINE new == InsertRow(page, k)
            n   == Len(page.row_keys)
            arrays(t) == [c \in DOMAIN page.cols[t] |-> Append(page.cols[t][c], Zero)]
<1>1. /\ page.row_keys \in Seq(K) /\ n \in Nat
      /\ DOMAIN page.row_map \subseteq K
      /\ page.row_map \in [DOMAIN page.row_map -> Nat]
      /\ \A t \in ColumnTypes : page.cols[t] \in Seq(Seq(V))
  BY DEF IsPage
<1>2. /\ new.row_map = [y \in DOMAIN page.row_map \cup {k} |->
                          IF y = k THEN n + 1 ELSE page.row_map[y]]
      /\ new.row_keys = Append(page.row_keys, k)
      /\ new.cols = [t \in ColumnTypes |-> arrays(t)]
      /\ new = [row_map |-> new.row_map, row_keys |-> new.row_keys, cols |-> new.cols]
  BY DEF InsertRow, Put
<1>3. \A t \in ColumnTypes :
        /\ arrays(t) \in Seq(Seq(V))
        /\ Len(arrays(t)) = Len(page.cols[t])
        /\ DOMAIN arrays(t) = DOMAIN page.cols[t]
        /\ \A c \in DOMAIN page.cols[t] : Len(arrays(t)[c]) = Len(page.cols[t][c]) + 1
  <2>. TAKE t \in ColumnTypes
  <2>1. /\ page.cols[t] \in Seq(Seq(V)) /\ Len(page.cols[t]) \in Nat
        /\ DOMAIN page.cols[t] = 1..Len(page.cols[t])
    BY <1>1
  <2>2. \A c \in DOMAIN page.cols[t] :
          /\ page.cols[t][c] \in Seq(V)
          /\ Append(page.cols[t][c], Zero) \in Seq(V)
          /\ Len(Append(page.cols[t][c], Zero)) = Len(page.cols[t][c]) + 1
    BY <2>1
  <2>3. arrays(t) \in [1..Len(page.cols[t]) -> Seq(V)]
    BY <2>1, <2>2
  <2>. QED
    BY <2>1, <2>2, <2>3, FunctionIsSeq
<1>. HIDE DEF new, arrays
<1>4. IsPage(new, K, V)
  <2>1. new.row_keys \in Seq(K)
    BY <1>1, <1>2
  <2>2. /\ DOMAIN new.row_map \subseteq K
        /\ new.row_map \in [DOMAIN new.row_map -> Nat]
    BY <1>1, <1>2
  <2>3. new.cols \in [ColumnTypes -> Seq(Seq(V))]
    BY <1>2, <1>3
  <2>. QED
    BY <1>2, <2>1, <2>2, <2>3 DEF IsPage
<1>5. IndexExact(new)
  <2>1. /\ DOMAIN new.row_keys = 1..(n + 1)
        /\ \A r \in 1..n : new.row_keys[r] = page.row_keys[r]
        /\ new.row_keys[n + 1] = k
        /\ DOMAIN page.row_keys = 1..n
    BY <1>1, <1>2
  <2>. QED
    BY <1>1, <1>2, <2>1 DEF IndexExact
<1>6. Aligned(page) => Aligned(new)
  <2>. SUFFICES ASSUME Aligned(page), NEW t \in ColumnTypes, NEW c \in DOMAIN new.cols[t]
               PROVE  Len(new.cols[t][c]) = Len(new.row_keys)
    BY DEF Aligned
  <2>1. Len(new.row_keys) = n + 1
    BY <1>1, <1>2
  <2>2. new.cols[t] = arrays(t) /\ c \in DOMAIN page.cols[t]
    BY <1>2, <1>3
  <2>3. Len(page.cols[t][c]) = n
    BY <2>2 DEF Aligned
  <2>. QED
    BY <1>3, <2>1, <2>2, <2>3
<1>7. \A schema : FitsSchema(page, schema) => FitsSchema(new, schema)
  BY <1>2, <1>3 DEF FitsSchema
<1>8. new.row_keys # << >>
  BY <1>1, <1>2
<1>. QED
  BY <1>2, <1>4, <1>5, <1>6, <1>7, <1>8 DEF new

\* Dropping an entry by swap-with-last yields a sequence one shorter.
LEMMA SwapRemoveSeq ==
  ASSUME NEW S, NEW seq \in Seq(S), NEW row
  PROVE  /\ SwapRemove(seq, row) \in Seq(S)
         /\ seq # << >> => /\ Len(SwapRemove(seq, row)) = Len(seq) - 1
                           /\ DOMAIN SwapRemove(seq, row) = 1..(Len(seq) - 1)
         /\ \A i \in 1..(Len(seq) - 1) :
              SwapRemove(seq, row)[i] = IF i = row THEN seq[Len(seq)] ELSE seq[i]
<1>. DEFINE new == [i \in 1..(Len(seq) - 1) |-> IF i = row THEN seq[Len(seq)] ELSE seq[i]]
<1>1. CASE seq = << >>
  <2>1. new = << >>
    BY <1>1
  <2>. QED
    BY <1>1, <2>1 DEF SwapRemove
<1>2. CASE seq # << >>
  <2>1. Len(seq) - 1 \in Nat /\ \A i \in 1..Len(seq) : seq[i] \in S
    BY <1>2
  <2>2. new \in [1..(Len(seq) - 1) -> S]
    BY <2>1
  <2>3. new \in Seq(S) /\ Len(new) = Len(seq) - 1 /\ DOMAIN new = 1..(Len(seq) - 1)
    BY <2>1, <2>2, FunctionIsSeq
  <2>. QED
    BY <2>3 DEF SwapRemove
<1>. QED
  BY <1>1, <1>2

\* erase of a key that is present.
LEMMA EraseRowCoherent ==
  ASSUME NEW K, NEW V, NEW page, IsPage(page, K, V),
         NEW k \in DOMAIN page.row_map, IndexExact(page)
  PROVE  /\ IsPage(EraseRow(page, k), K, V)
         /\ IndexExact(EraseRow(page, k))
         /\ Aligned(page) => Aligned(EraseRow(page, k))
         /\ \A schema : FitsSchema(page, schema) => FitsSchema(EraseRow(page, k), schema)
         /\ DOMAIN EraseRow(page, k).row_map = DOMAIN page.row_map \ {k}
<1>. DEFINE new   == EraseRow(page, k)
            row   == page.row_map[k]
            last  == Len(page.row_keys)
            moved == page.row_keys[last]
            arrays(t) == [c \in DOMAIN page.cols[t] |-> SwapRemove(page.cols[t][c], row)]
<1>1. /\ page.row_keys \in Seq(K) /\ DOMAIN page.row_keys = 1..last
      /\ DOMAIN page.row_map \subseteq K
      /\ page.row_map \in [DOMAIN page.row_map -> Nat]
      /\ \A t \in ColumnTypes : page.cols[t] \in Seq(Seq(V))
  BY DEF IsPage
<1>2. /\ row \in 1..last /\ last \in Nat \ {0} /\ page.row_keys[row] = k
      /\ moved \in DOMAIN page.row_map /\ page.row_map[moved] = last
  <2>1. row \in 1..last /\ page.row_keys[row] = k
    BY <1>1 DEF IndexExact
  <2>2. last \in Nat \ {0} /\ last \in 1..last
    BY <1>1, <2>1
  <2>3. moved \in DOMAIN page.row_map /\ page.row_map[moved] = last
    BY <1>1, <2>2 DEF IndexExact
  <2>. QED
    BY <2>1, <2>2, <2>3
<1>3. row = last <=> moved = k
  BY <1>2
<1>4. /\ new.row_map = IF row = last THEN Without(page.row_map, k)
                                      ELSE Put(Without(page.row_map, k), moved, row)
      /\ new.row_keys = SwapRemove(page.row_keys, row)
      /\ new.cols = [t \in ColumnTypes |-> arrays(t)]
      /\ new = [row_map |-> new.row_map, row_keys |-> new.row_keys, cols |-> new.cols]
  BY DEF EraseRow
<1>5. /\ DOMAIN new.row_map = DOMAIN page.row_map \ {k}
      /\ \A x \in DOMAIN page.row_map \ {k} :
           new.row_map[x] = IF x = moved THEN row ELSE page.row_map[x]
      /\ new.row_map = [x \in DOMAIN new.row_map |-> new.row_map[x]]
  BY ZenonT(30), <1>2, <1>3, <1>4 DEF Without, Put
<1>6. /\ new.row_keys \in Seq(K) /\ Len(new.row_keys) = last - 1
      /\ DOMAIN new.row_keys = 1..(last - 1)
      /\ \A i \in 1..(last - 1) :
           new.row_keys[i] = IF i = row THEN moved ELSE page.row_keys[i]
  BY <1>1, <1>2, <1>4, SwapRemoveSeq
<1>7. \A t \in ColumnTypes :
        /\ arrays(t) \in Seq(Seq(V))
        /\ Len(arrays(t)) = Len(page.cols[t])
        /\ DOMAIN arrays(t) = DOMAIN page.cols[t]
        /\ \A c \in DOMAIN page.cols[t] :
             Len(page.cols[t][c]) = last => Len(arrays(t)[c]) = last - 1
  <2>. TAKE t \in ColumnTypes
  <2>1. /\ page.cols[t] \in Seq(Seq(V)) /\ Len(page.cols[t]) \in Nat
        /\ DOMAIN page.cols[t] = 1..Len(page.cols[t])
    BY <1>1
  <2>2. \A c \in DOMAIN page.cols[t] :
          /\ page.cols[t][c] \in Seq(V)
          /\ SwapRemove(page.cols[t][c], row) \in Seq(V)
          /\ page.cols[t][c] # << >> =>
               Len(SwapRemove(page.cols[t][c], row)) = Len(page.cols[t][c]) - 1
    BY <2>1, SwapRemoveSeq
  <2>3. arrays(t) \in [1..Len(page.cols[t]) -> Seq(V)]
    BY <2>1, <2>2
  <2>4. \A c \in DOMAIN page.cols[t] :
          Len(page.cols[t][c]) = last => page.cols[t][c] # << >>
    BY <1>2
  <2>. QED
    BY <2>1, <2>2, <2>3, <2>4, FunctionIsSeq
<1>. HIDE DEF new, arrays
<1>8. IsPage(new, K, V)
  <2>1. DOMAIN new.row_map \subseteq K
    BY <1>1, <1>5
  <2>2. \A x \in DOMAIN new.row_map : new.row_map[x] \in Nat
    <3>1. row \in Nat /\ \A x \in DOMAIN page.row_map : page.row_map[x] \in Nat
      BY <1>1, <1>2
    <3>. QED
      BY <1>5, <3>1
  <2>3. new.row_map \in [DOMAIN new.row_map -> Nat]
    BY <1>5, <2>2
  <2>4. new.cols \in [ColumnTypes -> Seq(Seq(V))]
    BY <1>4, <1>7
  <2>. QED
    BY <1>4, <1>6, <2>1, <2>3, <2>4 DEF IsPage
<1>9. IndexExact(new)
  <2>1. /\ \A x \in DOMAIN page.row_map : /\ page.row_map[x] \in 1..last
                                          /\ page.row_keys[page.row_map[x]] = x
        /\ \A i \in 1..last : /\ page.row_keys[i] \in DOMAIN page.row_map
                              /\ page.row_map[page.row_keys[i]] = i
    BY <1>1 DEF IndexExact
  <2>2. ASSUME NEW x \in DOMAIN new.row_map
        PROVE  new.row_map[x] \in 1..(last - 1) /\ new.row_keys[new.row_map[x]] = x
    <3>1. x \in DOMAIN page.row_map /\ x # k
      BY <1>5
    <3>2. CASE x = moved
      <4>1. new.row_map[x] = row /\ row # last
        BY <1>3, <1>5, <3>1, <3>2
      <4>2. row \in 1..(last - 1)
        BY <1>2, <4>1
      <4>. QED
        BY <1>6, <3>2, <4>1, <4>2
    <3>3. CASE x # moved
      <4>1. new.row_map[x] = page.row_map[x]
        BY <1>5, <3>1, <3>3
      <4>2. page.row_map[x] # last /\ page.row_map[x] # row
        BY <1>2, <2>1, <3>1, <3>3
      <4>3. page.row_map[x] \in 1..(last - 1)
        BY <1>2, <2>1, <3>1, <4>2
      <4>. QED
        BY <1>6, <2>1, <3>1, <4>1, <4>2, <4>3
    <3>. QED
      BY <3>2, <3>3
  <2>3. ASSUME NEW i \in 1..(last - 1)
        PROVE  new.row_keys[i] \in DOMAIN new.row_map /\ new.row_map[new.row_keys[i]] = i
    <3>1. i \in 1..last /\ i # last
      BY <1>2
    <3>2. CASE i = row
      <4>1. new.row_keys[i] = moved /\ moved # k
        BY <1>3, <1>6, <3>1, <3>2
      <4>. QED
        BY <1>2, <1>5, <3>2, <4>1
    <3>3. CASE i # row
      <4>1. new.row_keys[i] = page.row_keys[i]
        BY <1>6, <3>3
      <4>2. page.row_keys[i] # k /\ page.row_keys[i] # moved
        BY <1>2, <2>1, <3>1, <3>3
      <4>. QED
        BY <1>5, <2>1, <3>1, <4>1, <4>2
    <3>. QED
      BY <3>2, <3>3
  <2>. QED
    BY <1>6, <2>2, <2>3 DEF IndexExact
<1>10. Aligned(page) => Aligned(new)
  <2>. SUFFICES ASSUME Aligned(page), NEW t \in ColumnTypes, NEW c \in DOMAIN new.cols[t]
               PROVE  Len(new.cols[t][c]) = Len(new.row_keys)
    BY DEF Aligned
  <2>1. new.cols[t] = arrays(t) /\ c \in DOMAIN page.cols[t]
    BY <1>4, <1>7
  <2>2. Len(page.cols[t][c]) = last
    BY <2>1 DEF Aligned
  <2>. QED
    BY <1>6, <1>7, <2>1, <2>2
<1>11. \A schema : FitsSchema(page, schema) => FitsSchema(new, schema)
  BY <1>4, <1>7 DEF FitsSchema
<1>. QED
  BY <1>5, <1>8, <1>9, <1>10, <1>11 DEF new

\* A write to one cell: nothing but that cell changes its value.
LEMMA SetCellCoherent ==
  ASSUME NEW K, NEW V, NEW page, IsPage(page, K, V), IndexExact(page),
         NEW t \in ColumnTypes, NEW local, NEW k, NEW v \in V
  PROVE  /\ IsPage(SetCell(page, t, local, k, v), K, V)
         /\ IndexExact(SetCell(page, t, local, k, v))
         /\ Aligned(page) => Aligned(SetCell(page, t, local, k, v))
         /\ \A schema : FitsSchema(page, schema)
                          => FitsSchema(SetCell(page, t, local, k, v), schema)
         /\ SetCell(page, t, local, k, v).row_map = page.row_map
         /\ SetCell(page, t, local, k, v).row_keys = page.row_keys
<1>. DEFINE new  == SetCell(page, t, local, k, v)
            r    == page.row_map[k]
            cell == [page.cols[t][local] EXCEPT ![r] = v]
            arrays == [page.cols[t] EXCEPT ![local] = cell]
<1>1. \A u \in ColumnTypes : page.cols[u] \in Seq(Seq(V))
  BY DEF IsPage
<1>2. /\ new.row_map = page.row_map
      /\ new.row_keys = page.row_keys
      /\ new.cols = [page.cols EXCEPT ![t] = arrays]
      /\ new = [row_map |-> new.row_map, row_keys |-> new.row_keys, cols |-> new.cols]
  <2>1. page \in [row_map : {page.row_map}, row_keys : {page.row_keys}, cols : {page.cols}]
    BY DEF IsPage
  <2>2. new = [page EXCEPT !.cols = [page.cols EXCEPT ![t] = arrays]]
    BY DEF SetCell
  <2>. HIDE DEF new, arrays
  <2>. QED
    BY <2>1, <2>2
<1>3. \A array \in Seq(V) : /\ [array EXCEPT ![r] = v] \in Seq(V)
                            /\ Len([array EXCEPT ![r] = v]) = Len(array)
  <2>. HIDE DEF r
  <2>. QED
    BY ExceptIsSeq
<1>4. /\ arrays \in Seq(Seq(V))
      /\ Len(arrays) = Len(page.cols[t])
      /\ DOMAIN arrays = DOMAIN page.cols[t]
      /\ \A c \in DOMAIN arrays : Len(arrays[c]) = Len(page.cols[t][c])
  <2>1. CASE local \in DOMAIN page.cols[t]
    <3>1. page.cols[t][local] \in Seq(V)
      BY <1>1, <2>1
    <3>2. cell \in Seq(V) /\ Len(cell) = Len(page.cols[t][local])
      BY <1>3, <3>1
    <3>. HIDE DEF cell
    <3>. QED
      BY <1>1, <2>1, <3>2
  <2>2. CASE local \notin DOMAIN page.cols[t]
    <3>. HIDE DEF cell
    <3>1. arrays = page.cols[t]
      BY <1>1, <2>2
    <3>. QED
      BY <1>1, <3>1
  <2>. QED
    BY <2>1, <2>2
<1>. HIDE DEF new, arrays
<1>5. /\ new.cols \in [ColumnTypes -> Seq(Seq(V))]
      /\ \A u \in ColumnTypes :
           /\ Len(new.cols[u]) = Len(page.cols[u])
           /\ DOMAIN new.cols[u] = DOMAIN page.cols[u]
           /\ \A c \in DOMAIN new.cols[u] : Len(new.cols[u][c]) = Len(page.cols[u][c])
  BY <1>1, <1>2, <1>4 DEF IsPage
<1>6. IsPage(new, K, V)
  BY <1>2, <1>5 DEF IsPage
<1>7. IndexExact(new)
  BY <1>2 DEF IndexExact
<1>8. Aligned(page) => Aligned(new)
  BY <1>2, <1>5 DEF Aligned
<1>9. \A schema : FitsSchema(page, schema) => FitsSchema(new, schema)
  BY <1>5 DEF FitsSchema
<1>. QED
  BY <1>2, <1>6, <1>7, <1>8, <1>9 DEF new

\* add_column: types and index survive; the alignment of a page with rows does not.
LEMMA AddArrayTyped ==
  ASSUME NEW K, NEW V, NEW page, IsPage(page, K, V), IndexExact(page),
         NEW t \in ColumnTypes
  PROVE  /\ IsPage(AddArray(page, t), K, V)
         /\ IndexExact(AddArray(page, t))
         /\ AddArray(page, t).row_map = page.row_map
         /\ AddArray(page, t).row_keys = page.row_keys
<1>. DEFINE new == AddArray(page, t)
<1>1. /\ new.row_map = page.row_map
      /\ new.row_keys = page.row_keys
      /\ new.cols = [page.cols EXCEPT ![t] = Append(page.cols[t], << >>)]
      /\ new = [row_map |-> new.row_map, row_keys |-> new.row_keys, cols |-> new.cols]
  <2>. DEFINE more == [page.cols EXCEPT ![t] = Append(page.cols[t], << >>)]
  <2>1. page \in [row_map : {page.row_map}, row_keys : {page.row_keys}, cols : {page.cols}]
    BY DEF IsPage
  <2>2. new = [page EXCEPT !.cols = more]
    BY DEF AddArray
  <2>. HIDE DEF new, more
  <2>3. /\ new.row_map = page.row_map
        /\ new.row_keys = page.row_keys
        /\ new.cols = more
        /\ new = [row_map |-> new.row_map, row_keys |-> new.row_keys, cols |-> new.cols]
    BY <2>1, <2>2
  <2>. QED
    BY <2>3 DEF more
<1>2. Append(page.cols[t], << >>) \in Seq(Seq(V))
  <2>1. << >> \in Seq(V) /\ page.cols[t] \in Seq(Seq(V))
    BY DEF IsPage
  <2>. QED
    BY <2>1
<1>. HIDE DEF new
<1>3. IsPage(new, K, V)
  BY <1>1, <1>2 DEF IsPage
<1>4. IndexExact(new)
  BY <1>1 DEF IndexExact
<1>. QED
  BY <1>1, <1>3, <1>4 DEF new
=============================================================================
