---------------------------- MODULE DfuProofs ----------------------------
(***************************************************************************)
(* Firmware update, for every geometry of the flash and every size of      *)
(* blocks and images: nothing outside the application's region is touched, *)
(* the page buffer has room, and an image found complete is in the flash   *)
(* unless the flash controller has reported an error.                      *)
(***************************************************************************)
EXTENDS Dfu, TLAPS

\* A command is under way only while an image is received.
Control == pc # "idle" => state = "DFU_RECEIVING"

\* How full the page buffer is, wherever the engine is.
Fill ==
  /\ pc \in {"idle", "copy"} => Len(page) < PageSize
  /\ pc \in {"erase", "program"} => Len(page) = PageSize
  /\ pc \in {"erase_last", "program_last"} => Len(page) % WordSize = 0
  /\ pc = "crc" => page = <<>>

\* Where the bytes received so far are, if all of them belong to the image:
\* in the flash up to addr, and from there on in the page buffer.
Position ==
  /\ pc \in {"idle", "copy", "erase", "program"} => received = addr + Len(page)
  /\ pc \in {"erase_last", "program_last", "crc"} => received <= addr + Len(page)

InPage ==
  \A i \in 1 .. Len(page) : addr + i <= size /\ addr + i <= received
                              => page[i] = "image"

InFlash ==
  \A c \in Cells : c < addr /\ c < received /\ c < size /\ c < Region
                     => flash[c] = "image"

ErasedBefore ==
  pc \in {"program", "program_last"} /\ addr < Region
    => \A c \in Cells : addr <= c /\ c < addr + PageSize => flash[c] = "erased"

Transfer ==
  /\ state = "DFU_RECEIVING" /\ intact
       => Position /\ InPage /\ InFlash /\ ErasedBefore
  /\ state = "DFU_COMPLETE" => received = size /\ received <= addr /\ InFlash

\* The inductive invariant; its last part unless the flash
\* controller has reported an error.
IInv ==
  /\ TypeOK
  /\ Control
  /\ Fill
  /\ ConfigUntouched
  /\ ~erred => Transfer

(***************************************************************************)
(* Multiples: of the word size, and of the page size.                      *)

LEMMA Quotient ==
  ASSUME NEW a \in Nat, NEW N \in Nat \ {0}
  PROVE  /\ a \div N \in Nat
         /\ a % N \in 0 .. N - 1
         /\ a = N * (a \div N) + (a % N)
OBVIOUS

LEMMA ProductMod ==
  ASSUME NEW q \in Nat, NEW N \in Nat \ {0}
  PROVE  (N * q) % N = 0
OBVIOUS

LEMMA ProductSuccessor ==
  ASSUME NEW q \in Nat, NEW N \in Nat \ {0}
  PROVE  N * q \in Nat /\ N * (q + 1) = N * q + N
OBVIOUS

LEMMA ProductGap ==
  ASSUME NEW p \in Nat, NEW q \in Nat, NEW N \in Nat \ {0}, N * p < N * q
  PROVE  N * (p + 1) <= N * q
<1>1. p < q
  OBVIOUS
<1>2. p + 1 <= q
  BY <1>1
<1>. QED  BY <1>2

LEMMA NextMultiple ==
  ASSUME NEW a \in Nat, NEW N \in Nat \ {0}, a % N = 0
  PROVE  (a + N) % N = 0
<1>. DEFINE q == a \div N
<1>1. q \in Nat /\ a = N * q
  BY Quotient
<1>. HIDE DEF q
<1>2. a + N = N * (q + 1)
  BY <1>1, ProductSuccessor
<1>. QED  BY <1>1, <1>2, ProductMod

\* The next multiple of N after a does not pass a later multiple.
LEMMA RoundUp ==
  ASSUME NEW a \in Nat, NEW b \in Nat, NEW N \in Nat \ {0}, a < b, b % N = 0
  PROVE  /\ N - (a % N) \in 1 .. N
         /\ a + (N - (a % N)) <= b
         /\ (a + (N - (a % N))) % N = 0
<1>. DEFINE p == a \div N
            q == b \div N
            r == a % N
<1>1. p \in Nat /\ r \in 0 .. N - 1 /\ a = N * p + r
  BY Quotient
<1>2. q \in Nat /\ b = N * q
  BY Quotient
<1>. HIDE DEF p, q
<1>3. N * p \in Nat /\ N * q \in Nat /\ N * (p + 1) = N * p + N
  BY <1>1, <1>2, ProductSuccessor
<1>. HIDE DEF r
<1>4. N * p < N * q
  BY <1>1, <1>2, <1>3
<1>5. N * (p + 1) <= N * q
  BY <1>1, <1>2, <1>4, ProductGap
<1>6. a + (N - r) = N * (p + 1)
  BY <1>1, <1>3
<1>7. (N * (p + 1)) % N = 0
  BY <1>1, ProductMod
<1>8. N - r \in 1 .. N /\ a + (N - r) <= b /\ (a + (N - r)) % N = 0
  BY <1>1, <1>2, <1>3, <1>5, <1>6, <1>7
<1>. QED  BY <1>8 DEF r

LEMMA RoundDown ==
  ASSUME NEW a \in Nat, NEW N \in Nat \ {0}
  PROVE  /\ a - (a % N) \in 0 .. a
         /\ (a - (a % N)) % N = 0
<1>. DEFINE p == a \div N
            r == a % N
<1>1. p \in Nat /\ r \in 0 .. N - 1 /\ a = N * p + r
  BY Quotient
<1>2. N * p \in Nat /\ (N * p) % N = 0
  BY <1>1, ProductMod, ProductSuccessor
<1>. HIDE DEF p, r
<1>3. a - r = N * p /\ a - r \in 0 .. a
  BY <1>1, <1>2
<1>4. (a - r) % N = 0
  BY <1>2, <1>3
<1>. QED  BY <1>3, <1>4 DEF r

(***************************************************************************)
(* The geometry.                                                           *)

LEMMA Geometry ==
  /\ WordSize \in Nat \ {0} /\ PageSize \in Nat \ {0}
  /\ PageSize % WordSize = 0
  /\ Region \in Nat \ {0}
  /\ Region % PageSize = 0
<1>1. WordSize \in Nat \ {0} /\ PageSize \in Nat \ {0} /\ AppPages \in Nat \ {0}
      /\ PageSize % WordSize = 0
  BY DfuAssumption
<1>2. PageSize * AppPages \in Nat \ {0} /\ (PageSize * AppPages) % PageSize = 0
  BY <1>1, ProductMod, ProductSuccessor
<1>3. Region = PageSize * AppPages
  BY <1>1 DEF Region
<1>. QED  BY <1>1, <1>2, <1>3

LEMMA CellsAreNat == Cells \subseteq Nat
BY Geometry DEF Cells

\* An erase or a program operation that is allowed leaves the region only if
\* its address is not the start of a page.
LEMMA PageInRegion ==
  ASSUME NEW a \in Nat, a % PageSize = 0, EraseAllowed(a)
  PROVE  a + PageSize <= Region
<1>1. PageSize - (a % PageSize) = PageSize
  BY Geometry
<1>. QED  BY <1>1, Geometry, RoundUp DEF EraseAllowed

LEMMA WordsOfPage ==
  ASSUME TypeOK
  PROVE  /\ Words \in 0 .. Len(page) /\ Words % WordSize = 0
         /\ Len(page) % WordSize = 0 => Words = Len(page)
<1>1. Len(page) \in Nat
  BY DEF TypeOK
<1>. DEFINE n == Len(page)
<1>2. n - (n % WordSize) \in 0 .. n /\ (n - (n % WordSize)) % WordSize = 0
  <2>. HIDE DEF n
  <2>. QED  BY <1>1, Geometry, RoundDown DEF n
<1>3. Words = n - (n % WordSize)
  BY DEF Words
<1>4. n % WordSize = 0 => n - (n % WordSize) = n
  BY <1>1
<1>. QED  BY <1>2, <1>3, <1>4

LEMMA PaddingFits ==
  ASSUME TypeOK, Len(page) < PageSize
  PROVE  /\ page \o Padding \in Seq(Content)
         /\ Len(page \o Padding) \in Len(page) .. PageSize
         /\ Len(page \o Padding) % WordSize = 0
         /\ \A i \in 1 .. Len(page) : (page \o Padding)[i] = page[i]
<1>. DEFINE k == WordSize - (Len(page) % WordSize)
<1>0. page \in Seq(Content) /\ Len(page) \in Nat
  BY DEF TypeOK
<1>1. k \in 1 .. WordSize /\ Len(page) + k <= PageSize /\ (Len(page) + k) % WordSize = 0
  BY <1>0, Geometry, RoundUp
<1>2. CASE Len(page) % WordSize = 0
  <2>1. Padding = <<>>
    BY <1>2 DEF Padding
  <2>2. page \o Padding = page
    BY <1>0, <2>1
  <2>. QED  BY <1>0, <1>2, <2>2, Geometry
<1>3. CASE Len(page) % WordSize # 0
  <2>1. Padding = [i \in 1 .. k |-> "erased"]
    BY <1>3 DEF Padding
  <2>. HIDE DEF k
  <2>2. Padding \in Seq(Content) /\ Len(Padding) = k
    BY <1>1, <2>1, Geometry DEF Content
  <2>. QED  BY <1>0, <1>1, <2>2
<1>. QED  BY <1>2, <1>3

(***************************************************************************)
(* The flash keeps its type, and its configuration pages, whatever is done *)
(* to it.                                                                  *)

LEMMA FlashOperations ==
  ASSUME TypeOK, ConfigUntouched,
         NEW f, \/ EraseAllowed(addr) /\ f \in {Erased(addr), Garbled(addr)}
                \/ \E n \in 0 .. Words : ProgAllowed(addr, Words) /\ f = Programmed(addr, n)
                \/ f \in {flash, Settled}
  PROVE  /\ f \in [Cells -> Content]
         /\ \A c \in Cells : c >= Region => f[c] = "config"
<1>0. /\ flash \in [Cells -> Content]
      /\ \A c \in Cells : c >= Region => flash[c] = "config"
      /\ addr \in Nat /\ addr % PageSize = 0
      /\ page \in Seq(Content) /\ Len(page) \in Nat
  BY DEF TypeOK, ConfigUntouched
<1>1. CASE EraseAllowed(addr) /\ f \in {Erased(addr), Garbled(addr)}
  <2>1. addr + PageSize <= Region
    BY <1>0, <1>1, PageInRegion
  <2>2. \A c \in Cells : c >= Region => c \notin CellsFrom(addr, PageSize)
    BY <1>0, <2>1, Geometry, CellsAreNat DEF CellsFrom
  <2>. QED  BY <1>0, <1>1, <2>2 DEF Erased, Garbled, Content
<1>2. CASE \E n \in 0 .. Words : ProgAllowed(addr, Words) /\ f = Programmed(addr, n)
  <2>1. PICK n \in 0 .. Words : ProgAllowed(addr, Words) /\ f = Programmed(addr, n)
    BY <1>2
  <2>2. Words \in 0 .. Len(page) /\ n \in Nat /\ n <= Len(page)
    BY <2>1, <1>0, WordsOfPage
  <2>3. \A c \in CellsFrom(addr, n) : c - addr + 1 \in 1 .. Len(page) /\ c < Region
    BY <1>0, <2>1, <2>2, Geometry, CellsAreNat DEF CellsFrom, ProgAllowed
  <2>4. \A c \in CellsFrom(addr, n) : page[c - addr + 1] \in Content
    BY <1>0, <2>3
  <2>5. f = [c \in Cells |-> IF c \in CellsFrom(addr, n) THEN page[c - addr + 1] ELSE flash[c]]
    BY <2>1 DEF Programmed
  <2>6. f \in [Cells -> Content]
    BY <1>0, <2>4, <2>5
  <2>7. \A c \in Cells : c >= Region => c \notin CellsFrom(addr, n)
    BY <2>3, Geometry, CellsAreNat
  <2>. QED  BY <1>0, <2>5, <2>6, <2>7
<1>3. CASE f \in {flash, Settled}
  BY <1>0, <1>3, Geometry, CellsAreNat DEF Settled, Content
<1>. QED  BY <1>1, <1>2, <1>3

(***************************************************************************)
(* The invariant holds initially, and each action preserves it.            *)

LEMMA Concatenation ==
  ASSUME NEW s \in Seq(Content), NEW t \in Seq(Content)
  PROVE  s \o t \in Seq(Content) /\ Len(s \o t) = Len(s) + Len(t)
OBVIOUS

LEMMA InitIInv == Init => IInv
<1>. SUFFICES ASSUME Init PROVE IInv
  OBVIOUS
<1>1. TypeOK
  <2>1. 0 % PageSize = 0 /\ Len(<<>>) <= PageSize
    BY Geometry
  <2>2. flash \in [Cells -> Content]
    BY DEF Init, Content
  <2>3. page \in Seq(Content) /\ Len(page) <= PageSize
    BY <2>1 DEF Init
  <2>4. addr \in Nat /\ addr % PageSize = 0
    BY <2>1 DEF Init
  <2>5. todo \in [left : Nat, right : BOOLEAN]
    BY DEF Init
  <2>. QED  BY <2>2, <2>3, <2>4, <2>5 DEF Init, TypeOK, State, PC
<1>2. Control /\ ConfigUntouched
  BY Geometry, CellsAreNat DEF Init, Control, ConfigUntouched
<1>3. Fill
  BY Geometry DEF Init, Fill
<1>4. Transfer
  BY DEF Init, Transfer
<1>. QED  BY <1>1, <1>2, <1>3, <1>4 DEF IInv

LEMMA StartStep ==
  ASSUME IInv, NEW total \in ImageSize, NEW n \in ImageSize, DFU_CMD_START(total, n)
  PROVE  IInv'
<1>0. TypeOK /\ Control /\ Fill /\ ConfigUntouched /\ n \in Nat
  BY DfuAssumption DEF IInv
<1>1. /\ flash' \in [Cells -> Content]
      /\ ConfigUntouched'
  BY <1>0, FlashOperations DEF DFU_CMD_START, ConfigUntouched
<1>2. CASE total > Region
  <2>1. TypeOK'
    BY <1>0, <1>1, <1>2 DEF DFU_CMD_START, TypeOK, State, PC
  <2>2. Control' /\ Fill' /\ Transfer'
    BY <1>0, <1>2 DEF DFU_CMD_START, Message, Control, Fill, Transfer
  <2>. QED  BY <1>1, <2>1, <2>2 DEF IInv
<1>3. CASE ~(total > Region)
  <2>1. 0 % PageSize = 0 /\ Len(<<>>) < PageSize
    BY Geometry
  <2>2. /\ state' = "DFU_RECEIVING" /\ page' = <<>> /\ received' = 0 /\ addr' = 0
        /\ pc' = "idle"
    BY <1>3 DEF DFU_CMD_START, Message
  <2>3. TypeOK'
    <3>1. addr' \in Nat /\ addr' % PageSize = 0
      BY <2>1, <2>2
    <3>2. page' \in Seq(Content) /\ Len(page') <= PageSize
      BY <2>1, <2>2, Geometry
    <3>3. intact' \in BOOLEAN /\ block' \in Nat /\ size' \in Nat /\ UNCHANGED <<mode, todo>>
      BY <1>0, <1>3 DEF DFU_CMD_START, TypeOK
    <3>4. erred' \in BOOLEAN
      BY <1>3 DEF DFU_CMD_START
    <3>. QED  BY <1>0, <1>1, <2>2, <3>1, <3>2, <3>3, <3>4 DEF TypeOK, State, PC
  <2>4. Control' /\ Fill'
    BY <2>1, <2>2 DEF Control, Fill
  <2>5. Transfer'
    BY <2>2, CellsAreNat DEF Transfer, Position, InPage, InFlash, ErasedBefore
  <2>. QED  BY <1>1, <2>3, <2>4, <2>5 DEF IInv
<1>. QED  BY <1>2, <1>3

LEMMA DataStep ==
  ASSUME IInv, NEW blk \in Nat, NEW n \in Nat, NEW stale \in BOOLEAN,
         DFU_CMD_DATA(blk, n, stale)
  PROVE  IInv'
<1>0. TypeOK /\ Control /\ Fill /\ ConfigUntouched
  BY DEF IInv
<1>1. /\ UNCHANGED <<flash, size, page, received, intact, block, addr, erred>>
      /\ pc = "idle" /\ state = "DFU_RECEIVING"
      /\ \/ state' = state /\ pc' = "copy"
         \/ state' = "DFU_ERROR" /\ pc' = pc
  BY DEF DFU_CMD_DATA, Message
<1>2. todo' \in [left : Nat, right : BOOLEAN]
  <2>. DEFINE mine == ~stale /\ received = blk * BlockSize
  <2>1. mine \in BOOLEAN
    OBVIOUS
  <2>2. \/ todo' = [left |-> n, right |-> mine]
        \/ todo' = todo
    BY DEF DFU_CMD_DATA
  <2>. HIDE DEF mine
  <2>. QED  BY <1>0, <2>1, <2>2 DEF TypeOK
<1>3. TypeOK'
  BY <1>0, <1>1, <1>2 DEF DFU_CMD_DATA, TypeOK, State, PC
<1>4. Control' /\ Fill' /\ ConfigUntouched'
  BY <1>0, <1>1 DEF Control, Fill, ConfigUntouched
<1>5. Transfer => Transfer'
  BY <1>1 DEF Transfer, Position, InPage, InFlash, ErasedBefore
<1>. QED  BY <1>1, <1>3, <1>4, <1>5 DEF IInv

LEMMA CopyStep ==
  ASSUME IInv, CopyPayload
  PROVE  IInv'
<1>0. /\ TypeOK /\ Control /\ Fill /\ ConfigUntouched
      /\ pc = "copy" /\ state = "DFU_RECEIVING" /\ Len(page) < PageSize
      /\ UNCHANGED <<mode, flash, state, size, addr, erred>>
      /\ page \in Seq(Content) /\ Len(page) \in Nat
      /\ received \in Nat /\ addr \in Nat /\ size \in Nat
      /\ todo \in [left : Nat, right : BOOLEAN] /\ intact \in BOOLEAN
  BY DEF IInv, CopyPayload, Control, Fill, TypeOK
<1>1. PICK k \in 0 .. todo.left :
        /\ Len(page) + k <= PageSize
        /\ page' = page \o [i \in 1 .. k |-> IF todo.right /\ received + i <= size
                                             THEN "image" ELSE "wrong"]
        /\ received' = received + k
        /\ intact' = (intact /\ (k > 0 => todo.right))
        /\ todo' = [todo EXCEPT !.left = @ - k]
        /\ IF Len(page) + k = PageSize
           THEN pc' = "erase" /\ UNCHANGED block
           ELSE pc' = "idle" /\ block' = block + 1
  BY DEF CopyPayload
<1>. DEFINE new == [i \in 1 .. k |-> IF todo.right /\ received + i <= size
                                     THEN "image" ELSE "wrong"]
<1>2. k \in Nat /\ new \in Seq(Content) /\ Len(new) = k
  BY <1>0 DEF Content
<1>3. \A i \in 1 .. k : todo.right /\ received + i <= size => new[i] = "image"
  OBVIOUS
<1>4. page' = page \o new
  BY <1>1
<1>. HIDE DEF new
<1>5. page' \in Seq(Content) /\ Len(page') = Len(page) + k
  <2>1. page \in Seq(Content) /\ Len(page) \in Nat
    BY <1>0
  <2>2. page \o new \in Seq(Content) /\ Len(page \o new) = Len(page) + Len(new)
    BY <1>2, <2>1, Concatenation
  <2>. QED  BY <1>2, <1>4, <2>2
<1>6. TypeOK'
  <2>1. todo' \in [left : Nat, right : BOOLEAN]
    <3>1. todo' = [todo EXCEPT !.left = @ - k]
      BY <1>1
    <3>2. todo.left - k \in Nat
      BY <1>0
    <3>. QED  BY <1>0, <3>1, <3>2
  <2>2. received' \in Nat /\ Len(page') <= PageSize
    BY <1>0, <1>1, <1>2, <1>5
  <2>3. intact' \in BOOLEAN
    BY <1>1
  <2>4. block' \in Nat /\ pc' \in PC
    BY <1>0, <1>1 DEF TypeOK, PC
  <2>. QED  BY <1>0, <1>5, <2>1, <2>2, <2>3, <2>4 DEF TypeOK
<1>7. Control' /\ Fill' /\ ConfigUntouched'
  <2>1. \/ Len(page') = PageSize /\ pc' = "erase"
        \/ Len(page') < PageSize /\ pc' = "idle"
    <3>1. /\ Len(page) + k <= PageSize
          /\ IF Len(page) + k = PageSize THEN pc' = "erase" ELSE pc' = "idle"
      BY <1>1
    <3>2. Len(page') = Len(page) + k /\ k \in Nat /\ Len(page) \in Nat
      BY <1>0, <1>2, <1>5
    <3>. QED  BY <3>1, <3>2, Geometry
  <2>2. Fill'
    BY <2>1 DEF Fill
  <2>. QED  BY <1>0, <2>1, <2>2 DEF Control, ConfigUntouched
<1>8. ASSUME Transfer PROVE Transfer'
  <2>. SUFFICES ASSUME intact' PROVE Position' /\ InPage' /\ InFlash' /\ ErasedBefore'
    BY <1>0 DEF Transfer
  <2>1. intact /\ (k > 0 => todo.right)
    BY <1>1
  <2>2. received = addr + Len(page) /\ InPage /\ InFlash
    BY <1>0, <1>8, <2>1 DEF Transfer, Position
  <2>3. Position'
    BY <1>0, <1>1, <1>2, <1>5, <2>2 DEF Position
  <2>4. InPage'
    <3>. SUFFICES ASSUME NEW i \in 1 .. Len(page'), addr + i <= size
                  PROVE  page'[i] = "image"
      BY <1>0 DEF InPage
    <3>1. CASE i <= Len(page)
      <4>1. page'[i] = page[i] /\ i \in 1 .. Len(page)
        BY <1>0, <1>2, <1>4, <1>5, <3>1
      <4>. QED  BY <1>0, <2>2, <4>1 DEF InPage
    <3>2. CASE i > Len(page)
      <4>1. i - Len(page) \in 1 .. k /\ page'[i] = new[i - Len(page)]
        BY <1>0, <1>2, <1>4, <1>5, <3>2
      <4>2. received + (i - Len(page)) <= size /\ todo.right
        BY <1>0, <1>2, <2>1, <2>2, <4>1
      <4>. QED  BY <1>3, <4>1, <4>2
    <3>. QED  BY <1>0, <1>5, <3>1, <3>2
  <2>5. InFlash'
    BY <1>0, <1>1, <2>2, CellsAreNat DEF InFlash
  <2>6. ErasedBefore'
    BY <1>1 DEF ErasedBefore
  <2>. QED  BY <2>3, <2>4, <2>5, <2>6
<1>. QED  BY <1>0, <1>6, <1>7, <1>8 DEF IInv

\* Erasing, before the page is programmed by `next'.
LEMMA EraseStep ==
  ASSUME IInv, NEW next,
         \/ pc = "erase" /\ next = "program"
         \/ pc = "erase_last" /\ next = "program_last",
         EraseTo(next)
  PROVE  IInv'
<1>0. /\ TypeOK /\ Control /\ Fill /\ ConfigUntouched
      /\ UNCHANGED <<mode, state, size, page, received, intact, block, addr, todo>>
      /\ pc' = next
  BY DEF IInv, EraseTo
<1>e. erred' \in BOOLEAN /\ (~erred' => ~erred)
  BY DEF IInv, TypeOK, EraseTo
<1>1. \/ EraseAllowed(addr) /\ flash' \in {Erased(addr), Garbled(addr)}
      \/ flash' = flash
  BY DEF EraseTo
<1>2. flash' \in [Cells -> Content] /\ ConfigUntouched'
  BY <1>0, <1>1, FlashOperations DEF ConfigUntouched
<1>3. TypeOK'
  BY <1>0, <1>e, <1>2 DEF TypeOK, PC
<1>4. Control' /\ Fill'
  BY <1>0 DEF Control, Fill
<1>5. ASSUME ~erred', Transfer PROVE Transfer'
  <2>0. /\ flash \in [Cells -> Content] /\ addr \in Nat
        /\ state = "DFU_RECEIVING"
    BY <1>0 DEF TypeOK, Control
  <2>. SUFFICES ASSUME intact PROVE Position' /\ InPage' /\ InFlash' /\ ErasedBefore'
    BY <1>0, <2>0 DEF Transfer
  <2>1. Position /\ InPage /\ InFlash
    BY <2>0, <1>5 DEF Transfer
  <2>2. Position' /\ InPage'
    BY <1>0, <2>1 DEF Position, InPage
  <2>3. \/ EraseAllowed(addr) /\ flash' = Erased(addr)
        \/ ~EraseAllowed(addr) /\ flash' = flash
    BY <1>5 DEF EraseTo
  <2>4. \A c \in Cells : c < addr => flash'[c] = flash[c]
    BY <2>0, <2>3, CellsAreNat, Geometry DEF Erased, CellsFrom
  <2>5. InFlash'
    BY <1>0, <2>1, <2>4 DEF InFlash
  <2>6. ErasedBefore'
    BY <1>0, <2>0, <2>3, CellsAreNat DEF ErasedBefore, Erased, CellsFrom, EraseAllowed
  <2>. QED  BY <2>2, <2>5, <2>6
<1>. QED  BY <1>e, <1>2, <1>3, <1>4, <1>5 DEF IInv

LEMMA ProgramStep ==
  ASSUME IInv, NEW next,
         \/ pc = "program" /\ next = "copy"
         \/ pc = "program_last" /\ next = "crc",
         ProgramTo(next)
  PROVE  IInv'
<1>0. /\ TypeOK /\ Control /\ Fill /\ ConfigUntouched
      /\ UNCHANGED <<mode, state, size, received, intact, block, todo>>
      /\ addr' = addr + PageSize /\ page' = <<>> /\ pc' = next
  BY DEF IInv, ProgramTo
<1>e. erred' \in BOOLEAN /\ (~erred' => ~erred)
  BY DEF IInv, TypeOK, ProgramTo
<1>a. addr \in Nat /\ addr % PageSize = 0 /\ Len(page) \in Nat /\ received \in Nat
      /\ Len(page) <= PageSize /\ flash \in [Cells -> Content]
  BY <1>0 DEF TypeOK
<1>1. \/ \E n \in 0 .. Words : ProgAllowed(addr, Words) /\ flash' = Programmed(addr, n)
      \/ flash' = flash
  BY DEF ProgramTo
<1>2. flash' \in [Cells -> Content] /\ ConfigUntouched'
  BY <1>0, <1>1, FlashOperations DEF ConfigUntouched
<1>3. addr' \in Nat /\ addr' % PageSize = 0
  <2>1. addr + PageSize \in Nat /\ (addr + PageSize) % PageSize = 0
    <3>1. PageSize \in Nat \ {0} /\ addr \in Nat /\ addr % PageSize = 0
      BY <1>a, Geometry
    <3>2. (addr + PageSize) % PageSize = 0
      BY <3>1, NextMultiple
    <3>. QED  BY <3>1, <3>2
  <2>. QED  BY <1>0, <2>1
<1>4. page' \in Seq(Content) /\ Len(page') = 0
  BY <1>0
<1>5. TypeOK'
  BY <1>0, <1>e, <1>2, <1>3, <1>4, Geometry DEF TypeOK, PC
<1>6. Control' /\ Fill'
  BY <1>0, <1>4, Geometry DEF Control, Fill
<1>7. ASSUME ~erred', Transfer PROVE Transfer'
  <2>0. state = "DFU_RECEIVING"
    BY <1>0 DEF Control
  <2>. SUFFICES ASSUME intact PROVE Position' /\ InPage' /\ InFlash' /\ ErasedBefore'
    BY <1>0, <2>0 DEF Transfer
  <2>1. Position /\ InPage /\ InFlash /\ ErasedBefore
    BY <2>0, <1>7 DEF Transfer
  <2>2. Position'
    BY <1>0, <1>a, <1>4, <2>1, Geometry DEF Position, Fill
  <2>3. InPage'
    BY <1>4 DEF InPage
  <2>4. ErasedBefore'
    BY <1>0 DEF ErasedBefore
  <2>5. Words = Len(page)
    BY <1>0, WordsOfPage, Geometry DEF Fill
  <2>6. received <= addr + Len(page)
    BY <1>0, <1>a, <2>1 DEF Position
  <2>7. ASSUME addr < Region
        PROVE  flash' = Programmed(addr, Words)
    <3>1. ProgAllowed(addr, Words)
      <4>1. addr + PageSize <= Region
        BY <1>a, <2>7, PageInRegion DEF EraseAllowed
      <4>. QED  BY <1>a, <2>5, <4>1, Geometry DEF ProgAllowed
    <3>2. PICK n \in 0 .. Words :
            /\ n % WordSize = 0
            /\ n = Words \/ ~Blank(addr, n + WordSize)
            /\ flash' = Programmed(addr, n)
      BY <1>7, <3>1 DEF ProgramTo
    <3>3. CASE n # Words
      <4>1. n + WordSize <= Words
        <5>1. n \in Nat /\ Words \in Nat /\ n < Words /\ Words % WordSize = 0
          BY <1>0, <1>a, <2>5, <3>2, <3>3, WordsOfPage
        <5>2. WordSize - (n % WordSize) = WordSize
          BY <3>2, Geometry
        <5>. QED  BY <5>1, <5>2, Geometry, RoundUp
      <4>2. Blank(addr, n + WordSize)
        <5>1. n + WordSize <= PageSize /\ n + WordSize \in Nat
          BY <1>a, <2>5, <3>2, <4>1, Geometry
        <5>2. \A c \in Cells : addr <= c /\ c < addr + PageSize => flash[c] = "erased"
          BY <1>0, <2>1, <2>7 DEF ErasedBefore
        <5>. QED  BY <1>a, <5>1, <5>2, Geometry, CellsAreNat DEF Blank, CellsFrom
      <4>. QED  BY <1>7, <3>2, <3>3, <4>2
    <3>. QED  BY <3>2, <3>3
  <2>8. InFlash'
    <3>. SUFFICES ASSUME NEW c \in Cells,
                         c < addr + PageSize, c < received, c < size, c < Region
                  PROVE  flash'[c] = "image"
      BY <1>0 DEF InFlash
    <3>0. c \in Nat /\ size \in Nat /\ Region \in Nat
      BY <1>0, CellsAreNat, Geometry DEF TypeOK
    <3>1. CASE c < addr
      <4>1. flash[c] = "image"
        BY <2>1, <3>1 DEF InFlash
      <4>2. flash'[c] = flash[c]
        BY <1>a, <1>1, <3>0, <3>1 DEF Programmed, CellsFrom
      <4>. QED  BY <4>1, <4>2
    <3>2. CASE addr <= c
      <4>. DEFINE i == c - addr + 1
      <4>1. i \in 1 .. Len(page) /\ addr + i <= size /\ addr + i <= received
        BY <1>a, <2>6, <3>0, <3>2
      <4>2. page[i] = "image"
        BY <2>1, <4>1 DEF InPage
      <4>3. c \in CellsFrom(addr, Words)
        BY <1>a, <2>5, <2>6, <3>0, <3>2 DEF CellsFrom
      <4>4. flash' = Programmed(addr, Words)
        BY <1>a, <2>7, <3>0, <3>2
      <4>5. flash'[c] = page[i]
        BY <4>3, <4>4 DEF Programmed
      <4>. QED  BY <4>2, <4>5
    <3>. QED  BY <1>a, <3>0, <3>1, <3>2
  <2>. QED  BY <2>2, <2>3, <2>4, <2>8
<1>. QED  BY <1>e, <1>2, <1>5, <1>6, <1>7 DEF IInv

LEMMA VerifyStep ==
  ASSUME IInv, DFU_CMD_VERIFY
  PROVE  IInv'
<1>0. /\ TypeOK /\ Control /\ Fill /\ ConfigUntouched
      /\ pc = "idle" /\ state = "DFU_RECEIVING"
      /\ UNCHANGED <<mode, flash, state, size, received, intact, block, addr, todo,
                     erred>>
      /\ page' = page \o Padding
      /\ pc' = IF page = <<>> THEN "crc" ELSE "erase_last"
  BY DEF IInv, DFU_CMD_VERIFY, Message
<1>a. Len(page) \in Nat /\ Len(page) < PageSize /\ addr \in Nat /\ received \in Nat
      /\ page \in Seq(Content) /\ size \in Nat
  BY <1>0 DEF TypeOK, Fill
<1>1. /\ page' \in Seq(Content)
      /\ Len(page') \in Len(page) .. PageSize
      /\ Len(page') % WordSize = 0
      /\ \A i \in 1 .. Len(page) : page'[i] = page[i]
  BY <1>0, <1>a, PaddingFits
<1>2. page = <<>> => page' = <<>>
  <2>. HAVE page = <<>>
  <2>1. Padding = <<>>
    BY Geometry DEF Padding
  <2>. QED  BY <1>0, <2>1
<1>3. TypeOK'
  BY <1>0, <1>1, Geometry DEF TypeOK, PC
<1>4. Control' /\ Fill' /\ ConfigUntouched'
  BY <1>0, <1>1, <1>2 DEF Control, Fill, ConfigUntouched
<1>5. ASSUME Transfer PROVE Transfer'
  <2>. SUFFICES ASSUME intact PROVE Position' /\ InPage' /\ InFlash' /\ ErasedBefore'
    BY <1>0 DEF Transfer
  <2>1. received = addr + Len(page) /\ InPage /\ InFlash
    BY <1>0, <1>5 DEF Transfer, Position
  <2>2. Position'
    BY <1>0, <1>a, <1>1, <2>1, Geometry DEF Position
  <2>3. InPage'
    <3>. SUFFICES ASSUME NEW i \in 1 .. Len(page'), addr + i <= size, addr + i <= received
                  PROVE  page'[i] = "image"
      BY <1>0 DEF InPage
    <3>1. i \in 1 .. Len(page)
      BY <1>a, <1>1, <2>1, Geometry
    <3>. QED  BY <1>1, <2>1, <3>1 DEF InPage
  <2>4. InFlash' /\ ErasedBefore'
    BY <1>0, <2>1 DEF InFlash, ErasedBefore
  <2>. QED  BY <2>2, <2>3, <2>4
<1>. QED  BY <1>0, <1>3, <1>4, <1>5 DEF IInv

LEMMA CompareStep ==
  ASSUME IInv, CompareCrc
  PROVE  IInv'
<1>0. /\ TypeOK /\ Control /\ Fill /\ ConfigUntouched
      /\ pc = "crc" /\ state = "DFU_RECEIVING" /\ pc' = "idle"
      /\ UNCHANGED <<mode, flash, size, page, received, intact, block, addr, todo,
                     erred>>
      /\ state' = IF intact /\ received = size THEN "DFU_COMPLETE" ELSE "DFU_ERROR"
  BY DEF IInv, CompareCrc, Control
<1>1. page = <<>> /\ addr \in Nat
  BY <1>0 DEF Fill, TypeOK
<1>2. TypeOK'
  BY <1>0 DEF TypeOK, PC, State
<1>3. Control' /\ Fill' /\ ConfigUntouched'
  BY <1>0, <1>1, Geometry DEF Control, Fill, ConfigUntouched
<1>4. Transfer => Transfer'
  BY <1>0, <1>1 DEF Transfer, Position, InFlash
<1>. QED  BY <1>0, <1>2, <1>3, <1>4 DEF IInv

\* A reset at any time, the flash in whatever state it left it.
LEMMA ResetStep ==
  ASSUME IInv, Cleared, mode' = "boot",
         \/ flash' = flash
         \/ EraseAllowed(addr) /\ flash' = Garbled(addr)
  PROVE  IInv'
<1>0. TypeOK /\ ConfigUntouched
  BY DEF IInv
<1>1. flash' \in [Cells -> Content] /\ ConfigUntouched'
  BY <1>0, FlashOperations DEF ConfigUntouched
<1>2. 0 % PageSize = 0 /\ Len(<<>>) < PageSize
  BY Geometry
<1>3. TypeOK'
  <2>1. addr' \in Nat /\ addr' % PageSize = 0 /\ received' \in Nat /\ block' \in Nat
    BY <1>2 DEF Cleared
  <2>2. page' \in Seq(Content) /\ Len(page') <= PageSize
    BY <1>2, Geometry DEF Cleared
  <2>3. todo' \in [left : Nat, right : BOOLEAN]
    BY DEF Cleared
  <2>. QED  BY <1>0, <1>1, <2>1, <2>2, <2>3 DEF Cleared, TypeOK, State, PC
<1>4. Control' /\ Fill'
  BY <1>2 DEF Cleared, Control, Fill
<1>5. Transfer'
  BY DEF Cleared, Transfer
<1>. QED  BY <1>1, <1>3, <1>4, <1>5 DEF IInv

\* Steps that change only where the processor is.
LEMMA ModeStep ==
  ASSUME IInv, mode' \in {"app", "boot", "wait", "lost"}, UNCHANGED <<flash, ram>>
  PROVE  IInv'
<1>0. erred' = erred
  BY DEF ram
<1>1. TypeOK' /\ Control' /\ Fill' /\ ConfigUntouched'
  BY DEF IInv, ram, TypeOK, Control, Fill, ConfigUntouched
<1>2. Transfer => Transfer'
  BY DEF ram, Transfer, Position, InPage, InFlash, ErasedBefore
<1>. QED  BY <1>0, <1>1, <1>2 DEF IInv

LEMMA Inductive == IInv /\ [Next]_vars => IInv'
<1>. SUFFICES ASSUME IInv, [Next]_vars PROVE IInv'
  OBVIOUS
<1>1. ASSUME NEW total \in ImageSize, NEW n \in ImageSize, DFU_CMD_START(total, n)
      PROVE  IInv'
  BY <1>1, StartStep
<1>2. ASSUME NEW blk \in 0 .. block + 1, NEW n \in 0 .. MaxPayload, NEW stale \in BOOLEAN,
             DFU_CMD_DATA(blk, n, stale)
      PROVE  IInv'
  <2>1. blk \in Nat /\ n \in Nat
    BY DfuAssumption DEF IInv, TypeOK
  <2>. QED  BY <1>2, <2>1, DataStep
<1>3. CASE CopyPayload
  BY <1>3, CopyStep
<1>4. CASE ErasePage \/ EraseLast
  BY <1>4, EraseStep DEF ErasePage, EraseLast
<1>5. CASE ProgramPage \/ ProgramLast
  BY <1>5, ProgramStep DEF ProgramPage, ProgramLast
<1>6. CASE DFU_CMD_VERIFY
  BY <1>6, VerifyStep
<1>7. CASE CompareCrc
  BY <1>7, CompareStep
<1>8. CASE DFU_CMD_REBOOT
  BY <1>8, ResetStep DEF DFU_CMD_REBOOT
<1>9. CASE PowerLoss
  BY <1>9, ResetStep DEF PowerLoss
<1>10. CASE Derail
  BY <1>10, ModeStep DEF Derail
<1>11. CASE Boot
  BY <1>11, ModeStep DEF Boot
<1>12. CASE UNCHANGED vars
  BY <1>12, ModeStep DEF vars, ram, IInv, TypeOK
<1>. QED
  BY <1>1, <1>2, <1>3, <1>4, <1>5, <1>6, <1>7, <1>8, <1>9, <1>10, <1>11, <1>12 DEF Next

(***************************************************************************)
(* The theorems.                                                           *)

\* Everything below rests on this.
THEOREM Invariance == Spec => []IInv
BY InitIInv, Inductive, PTL DEF Spec

\* The engine's context and the flash keep their types (dfu_engine.h:33).
THEOREM TypeCorrect == Spec => []TypeOK
<1>1. IInv => TypeOK
  BY DEF IInv
<1>. QED  BY <1>1, Invariance, PTL

\* No message, no error of the flash and no loss of power ever lets the
\* engine erase or program anything from CONFIG_ADDR on (bsp_fmc.c:10, 20).
THEOREM ConfigSafe == Spec => []ConfigUntouched
<1>1. IInv => ConfigUntouched
  BY DEF IInv
<1>. QED  BY <1>1, Invariance, PTL

\* page_buf is never overrun and always flushed in whole words
\* (dfu_engine.c:74, 90).
THEOREM PageBufferSafe == Spec => []PageHasRoom
<1>1. IInv => PageHasRoom
  BY Geometry DEF IInv, Fill, PageHasRoom
<1>. QED  BY <1>1, Invariance, PTL

\* An image that fits and is found complete is in the flash byte for byte,
\* unless the flash controller has reported an error (dfu_engine.c:64-100).
THEOREM CompleteMeansFlashed == Spec => []CompleteIsFlashed
<1>1. IInv => CompleteIsFlashed
  <2>. SUFFICES ASSUME IInv, state = "DFU_COMPLETE", size <= Region, ~erred,
                       NEW c \in Cells, c < size
                PROVE  flash[c] = "image"
    BY DEF CompleteIsFlashed
  <2>1. received = size /\ received <= addr /\ InFlash
    BY DEF IInv, Transfer
  <2>2. c \in Nat /\ size \in Nat /\ addr \in Nat /\ Region \in Nat
    BY CellsAreNat, Geometry DEF IInv, TypeOK
  <2>. QED  BY <2>1, <2>2 DEF InFlash
<1>. QED  BY <1>1, Invariance, PTL
=============================================================================
