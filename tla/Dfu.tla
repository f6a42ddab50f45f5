-------------------------------- MODULE Dfu --------------------------------
(***************************************************************************)
(* Firmware update: the engine (Middleware/dfu_engine.c) as the dispatcher *)
(* of main.c drives it, the flash driver (Driver/bsp_fmc.c), and what the  *)
(* boot loader (Bootloader/boot_main.c) finds after a reset or a loss of   *)
(* power at any step.                                                      *)
(*                                                                         *)
(* Flash offsets count from APP_ADDR.  A cell is one byte; what is kept of *)
(* it is where it comes from.  A CRC match means the same bytes: collisions*)
(* are left out.  Every SysEx message of a host may be lost, repeated,     *)
(* reordered or left over from an earlier session.                         *)
(*                                                                         *)
(* The program that runs the engine lies in the region that the engine     *)
(* erases (Project/Listings/USB Controller.map:1759: its main loop is in   *)
(* the first page).  It may go on, since the engine itself may be elsewhere*)
(* or in the processor's cache, until it runs into what was erased: Derail.*)
(***************************************************************************)
EXTENDS Integers, Sequences

CONSTANTS
  WordSize,    (* bytes in a flash word, 4                                 *)
  PageSize,    (* FMC_PAGE_SIZE, 1024                                      *)
  AppPages,    (* pages from APP_ADDR to CONFIG_ADDR, 48                   *)
  BlockSize,   (* bytes in a block but the last, DFU_BLOCK_SIZE = 128      *)
  MaxPayload,  (* bytes a SysEx message has for a block, SX_MAX_LEN - 8    *)
  HalfByte,    (* what a byte of a SysEx message is less than, 128         *)
  ImageSize,   (* the sizes of the images that hosts send                  *)
  MaxReceived  (* bound: bytes sent in one session                         *)

ASSUME DfuAssumption ==
  /\ WordSize \in Nat \ {0}
  /\ PageSize \in Nat \ {0} /\ PageSize % WordSize = 0
  /\ AppPages \in Nat \ {0}
  /\ BlockSize \in Nat
  /\ MaxPayload \in Nat
  /\ HalfByte \in Nat \ {0}
  /\ ImageSize \subseteq Nat
  /\ MaxReceived \in Nat

Region == AppPages * PageSize     \* CONFIG_ADDR - APP_ADDR

\* One page stands for everything from CONFIG_ADDR on.
Cells == 0 .. Region + PageSize - 1

(* "image": the byte of the present image that belongs to the cell;        *)
(* "wrong": any byte that does not belong there; "old": the application    *)
(* that was there before; "config": what is kept from CONFIG_ADDR on.      *)
Content == {"image", "wrong", "old", "erased", "config"}

VARIABLES
  mode,      (* "app"; "boot"; "wait": the boot loader's dfu_wait_loop;    *)
             (* "lost": the processor runs what is no program              *)
  flash,     (* the cells                                                  *)
  state,     (* ctx->state                                                 *)
  size,      (* size of the image whose CRC expected_crc is                *)
  page,      (* ctx->page_buf up to page_offset                            *)
  received,  (* ctx->received                                              *)
  intact,    (* running_crc is the CRC of the image's first bytes          *)
  block,     (* ctx->next_block                                            *)
  addr,      (* ctx->flash_addr                                            *)
  pc,        (* where dfu_process_sysex is                                 *)
  todo,      (* DATA: payload bytes left and whether they belong here      *)
  erred      (* the flash controller has reported an error in this session; *)
             (* the code does not keep it, only the properties look at it  *)

vars == <<mode, flash, state, size, page, received, intact, block, addr, pc,
          todo, erred>>

ram == <<state, size, page, received, intact, block, addr, pc, todo, erred>>

State == {"DFU_IDLE", "DFU_RECEIVING", "DFU_COMPLETE", "DFU_ERROR"}

\* Control: between messages; copying the payload; erasing a page, and then
\* programming it, for DATA or for VERIFY; comparing the CRCs.
PC == {"idle", "copy", "erase", "program", "erase_last", "program_last", "crc"}

TypeOK ==
  /\ mode \in {"app", "boot", "wait", "lost"}
  /\ flash \in [Cells -> Content]
  /\ state \in State
  /\ size \in Nat
  /\ page \in Seq(Content) /\ Len(page) <= PageSize
  /\ received \in Nat
  /\ intact \in BOOLEAN
  /\ block \in Nat
  /\ addr \in Nat /\ addr % PageSize = 0
  /\ pc \in PC
  /\ todo \in [left : Nat, right : BOOLEAN]
  /\ erred \in BOOLEAN

\* A reset, and dfu_init after it.  The size is what the host remembers.
Cleared ==
  /\ state' = "DFU_IDLE"
  /\ UNCHANGED size
  /\ received' = 0 /\ block' = 0 /\ addr' = 0
  /\ page' = <<>>
  /\ intact' = FALSE
  /\ pc' = "idle"
  /\ todo' = [left |-> 0, right |-> TRUE]
  /\ erred' = FALSE

Init ==
  /\ mode = "app"
  /\ flash = [c \in Cells |-> IF c < Region THEN "old" ELSE "config"]
  /\ state = "DFU_IDLE"
  /\ size = 0 /\ received = 0 /\ block = 0 /\ addr = 0
  /\ page = <<>>
  /\ intact = FALSE
  /\ pc = "idle"
  /\ todo = [left |-> 0, right |-> TRUE]
  /\ erred = FALSE

-----------------------------------------------------------------------------
(* The flash driver.                                                       *)

CellsFrom(a, n) == {c \in Cells : a <= c /\ c < a + n}

\* Mutant of EraseAllowed: an off-by-one at the end of the region.
EraseAllowed_Inclusive(a) == a <= Region

\* bsp_fmc_erase, line 10.
EraseAllowed(a) == a < Region

\* bsp_fmc_prog, line 20, for n bytes.
ProgAllowed(a, n) == a + n <= Region

Erased(a) ==
  [c \in Cells |-> IF c \in CellsFrom(a, PageSize) THEN "erased" ELSE flash[c]]

\* What an erase that was broken off leaves behind.
Garbled(a) ==
  [c \in Cells |-> IF c \in CellsFrom(a, PageSize) THEN "wrong" ELSE flash[c]]

\* The first n bytes of the page buffer, at a.
Programmed(a, n) ==
  [c \in Cells |-> IF c \in CellsFrom(a, n) THEN page[c - a + 1] ELSE flash[c]]

Blank(a, n) == \A c \in CellsFrom(a, n) : flash[c] = "erased"

\* Line 32: the bytes in the whole words of the page buffer.
Words == Len(page) - (Len(page) % WordSize)

\* flush_page, line 31.  The result is ignored.
EraseTo(next) ==
  /\ mode = "app"
  /\ \/ EraseAllowed(addr) /\ flash' = Erased(addr) /\ UNCHANGED erred
     \/ EraseAllowed(addr) /\ flash' \in {flash, Garbled(addr)} /\ erred' = TRUE
     \/ ~EraseAllowed(addr) /\ UNCHANGED <<flash, erred>>
  /\ pc' = next
  /\ UNCHANGED <<mode, state, size, page, received, intact, block, addr, todo>>

\* Mutant of ProgramTo: the address advances by what was programmed.
ProgramTo_ByWords(next) ==
  /\ mode = "app"
  /\ flash' = IF ProgAllowed(addr, Words) THEN Programmed(addr, Words) ELSE flash
  /\ addr' = addr + Words
  /\ page' = <<>>
  /\ pc' = next
  /\ UNCHANGED <<mode, state, size, received, intact, block, todo, erred>>

\* Lines 32-35.  The words are programmed one after the other up to the first
\* that fails, as one does whose cells are not erased; the result is ignored.
ProgramTo(next) ==
  /\ mode = "app"
  /\ IF ProgAllowed(addr, Words)
     THEN \E n \in 0 .. Words :
            /\ n % WordSize = 0 /\ Blank(addr, n)
            /\ \/ n = Words /\ UNCHANGED erred
               \/ ~Blank(addr, n + WordSize) /\ UNCHANGED erred
               \/ n < Words /\ erred' = TRUE
            /\ flash' = Programmed(addr, n)
     ELSE UNCHANGED <<flash, erred>>
  /\ addr' = addr + PageSize
  /\ page' = <<>>
  /\ pc' = next
  /\ UNCHANGED <<mode, state, size, received, intact, block, todo>>

ErasePage   == pc = "erase" /\ EraseTo("program")
ProgramPage == pc = "program" /\ ProgramTo("copy")
EraseLast   == pc = "erase_last" /\ EraseTo("program_last")
ProgramLast == pc = "program_last" /\ ProgramTo("crc")

-----------------------------------------------------------------------------
(* dfu_process_sysex.                                                      *)

Message == mode = "app" /\ pc = "idle"

ImageHeld == size > 0 /\ \A c \in Cells : c < size => flash[c] = "image"

\* The region, once the host turns to another image.
Settled ==
  [c \in Cells |-> IF ImageHeld /\ c < Region THEN "old"
                   ELSE IF flash[c] = "image" THEN "wrong" ELSE flash[c]]

\* Lines 46-62, for an image of n bytes announced as one of total bytes.
DFU_CMD_START(total, n) ==
  /\ Message
  /\ size' = n
  /\ flash' = Settled
  /\ IF total > Region
     THEN /\ state' = "DFU_ERROR"
          /\ intact' = FALSE
          /\ UNCHANGED <<page, received, block, addr, erred>>
     ELSE /\ state' = "DFU_RECEIVING"
          /\ page' = <<>> /\ received' = 0 /\ intact' = TRUE
          /\ block' = 0 /\ addr' = 0 /\ erred' = FALSE
  /\ UNCHANGED <<mode, pc, todo>>

\* Line 67: the block number travels as two bytes of a SysEx message.
Sendable(blk) == blk % (2 * HalfByte) < HalfByte

\* Line 68.
Expected(blk) == blk = block

\* Lines 65-70, for n bytes sent as block blk of the image, or of another
\* image if stale.  Nothing limits n to the size of a block.
DFU_CMD_DATA(blk, n, stale) ==
  /\ Message
  /\ Sendable(blk)
  /\ state = "DFU_RECEIVING"
  /\ received + n <= MaxReceived
  /\ IF Expected(blk)
     THEN /\ pc' = "copy"
          /\ todo' = [left |-> n,
                      right |-> ~stale /\ received = blk * BlockSize]
          /\ UNCHANGED state
     ELSE state' = "DFU_ERROR" /\ UNCHANGED <<pc, todo>>
  /\ UNCHANGED <<mode, flash, size, page, received, intact, block, addr, erred>>

\* Lines 73-79: as many bytes as fit into the page.
CopyPayload ==
  /\ mode = "app" /\ pc = "copy"
  /\ \E k \in 0 .. todo.left :
       /\ Len(page) + k <= PageSize
       /\ k = todo.left \/ Len(page) + k = PageSize
       /\ page' = page \o [i \in 1 .. k |-> IF todo.right /\ received + i <= size
                                            THEN "image" ELSE "wrong"]
       /\ received' = received + k
       /\ intact' = (intact /\ (k > 0 => todo.right))
       /\ todo' = [todo EXCEPT !.left = @ - k]
       /\ IF Len(page) + k = PageSize
          THEN pc' = "erase" /\ UNCHANGED block
          ELSE pc' = "idle" /\ block' = block + 1
  /\ UNCHANGED <<mode, flash, state, size, addr, erred>>

\* Mutant of Padding: the last word is left short.
Padding_None == <<>>

\* Line 90: what fills up the last word.
Padding == IF Len(page) % WordSize = 0 THEN <<>>
           ELSE [i \in 1 .. WordSize - (Len(page) % WordSize) |-> "erased"]

\* Mutant of DFU_CMD_VERIFY: the partial page is not written.
DFU_CMD_VERIFY_NoFlush ==
  /\ Message
  /\ state = "DFU_RECEIVING"
  /\ pc' = "crc"
  /\ UNCHANGED <<mode, flash, state, size, page, received, intact, block, addr,
                 todo, erred>>

\* Lines 87-92.
DFU_CMD_VERIFY ==
  /\ Message
  /\ state = "DFU_RECEIVING"
  /\ page' = page \o Padding
  /\ pc' = IF page = <<>> THEN "crc" ELSE "erase_last"
  /\ UNCHANGED <<mode, flash, state, size, received, intact, block, addr, todo,
                 erred>>

\* Lines 93-99.
CompareCrc ==
  /\ mode = "app" /\ pc = "crc"
  /\ state' = IF intact /\ received = size THEN "DFU_COMPLETE" ELSE "DFU_ERROR"
  /\ pc' = "idle"
  /\ UNCHANGED <<mode, flash, size, page, received, intact, block, addr, todo,
                 erred>>

\* Lines 102-107.  The staging page is beyond CONFIG_ADDR, so the driver
\* refuses both flash calls.
DFU_CMD_REBOOT ==
  /\ Message
  /\ mode' = "boot"
  /\ Cleared
  /\ UNCHANGED flash

-----------------------------------------------------------------------------
(* The environment and the boot loader.                                    *)

\* Power may fail at any time.
PowerLoss ==
  /\ mode' = "boot"
  /\ Cleared
  /\ flash' \in IF mode = "app" /\ pc \in {"erase", "erase_last"} /\ EraseAllowed(addr)
                THEN {flash, Garbled(addr)} ELSE {flash}

Whole == ImageHeld \/ \A c \in Cells : c < Region => flash[c] = "old"

\* The running program runs into what is no longer there.
Derail ==
  /\ mode = "app"
  /\ \E c \in Cells : c < Region /\ flash[c] # "old"
  /\ ~ImageHeld
  /\ mode' = "lost"
  /\ UNCHANGED <<flash, ram>>

\* app_is_valid: the first word looks like a stack pointer in the RAM.  That
\* of a program does, an erased one does not, any other may.
AppIsValid ==
  CASE flash[0] \in {"old", "image"} -> {TRUE}
    [] flash[0] = "erased"           -> {FALSE}
    [] OTHER                         -> BOOLEAN

\* The boot loader's main.  The flag is never set, see DFU_CMD_REBOOT.
Boot ==
  /\ mode = "boot"
  /\ \E valid \in AppIsValid :
       mode' = IF ~valid THEN "wait" ELSE IF Whole THEN "app" ELSE "lost"
  /\ UNCHANGED <<flash, ram>>

-----------------------------------------------------------------------------
Next ==
  \/ \E total, n \in ImageSize : DFU_CMD_START(total, n)
  \/ \E blk \in 0 .. block + 1, n \in 0 .. MaxPayload, stale \in BOOLEAN :
       DFU_CMD_DATA(blk, n, stale)
  \/ CopyPayload
  \/ ErasePage
  \/ ProgramPage
  \/ DFU_CMD_VERIFY
  \/ EraseLast
  \/ ProgramLast
  \/ CompareCrc
  \/ DFU_CMD_REBOOT
  \/ PowerLoss
  \/ Derail
  \/ Boot

Spec == Init /\ [][Next]_vars

-----------------------------------------------------------------------------
(* Properties.                                                             *)

\* Whatever messages arrive, nothing from CONFIG_ADDR on is ever erased or
\* programmed (bsp_fmc.c:10, 20), though the engine itself counts addresses
\* on without limit (dfu_engine.c:33).
ConfigUntouched == \A c \in Cells : c >= Region => flash[c] = "config"

\* page_buf is never overrun: there is room whenever a byte is stored, also
\* by the padding (dfu_engine.c:74, 90).
PageHasRoom ==
  /\ pc \in {"idle", "copy"} => Len(page) < PageSize
  /\ pc \in {"program", "program_last"} => Len(page) % WordSize = 0

\* A lost, repeated, reordered or stale block never goes unnoticed: when the
\* image is complete, the region holds it, byte for byte, if the image fits
\* and the flash controller has reported no error, which would be ignored
\* (dfu_engine.c:31-32; dfu_engine.h:6: "we verify CRC32 and program Flash").
CompleteIsFlashed ==
  state = "DFU_COMPLETE" /\ size <= Region /\ ~erred
    => \A c \in Cells : c < size => flash[c] = "image"

\* The boot loader never starts what is not a whole program (boot_main.c:10:
\* "Check App validity"; readme-md.md:23: "app validity verify").
BootedIsWhole == [][mode = "boot" /\ mode' # "boot" => mode' # "lost"]_vars
=============================================================================
