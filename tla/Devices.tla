------------------------------ MODULE Devices -------------------------------
(***************************************************************************)
(* Devices of NEMU and of the SoC with the drivers of abstract-machine: the *)
(* keyboards, the screen, and the addresses devices are given.             *)
(***************************************************************************)
EXTENDS Integers, Sequences, FiniteSets

-----------------------------------------------------------------------------
(***************************************************************************)
(* The way of a key from the host's window to the guest: SDL's event       *)
(* queue, device_update, the ring of nemu/src/device/keyboard.c, the i8042 *)
(* register, and the driver of abstract-machine (platform/nemu/ioe/input.c)*)
(* that takes the key apart again.  While the debugger waits at its prompt *)
(* nothing drains the event queue, and a command empties it.               *)
(***************************************************************************)

CONSTANTS Keys,            \* key codes, positive and below KEYDOWN_MASK
          Unmapped,        \* a host key without a code: keymap yields NONE
          KEYDOWN_MASK,
          KEY_QUEUE_LEN,
          MaxEvents        \* bound: events the user makes

ASSUME KeyboardAssumption ==
  /\ KEYDOWN_MASK \in Nat \ {0} /\ Keys \subseteq 1 .. KEYDOWN_MASK - 1 /\ Unmapped \notin Keys
  /\ KEY_QUEUE_LEN \in Nat \ {0}

VARIABLES events,          \* SDL's queue
          made,            \* how many events the user has made
          key_queue, key_f, key_r,
          state,           \* nemu_state.state: "running", "stop", "quit", "abort"
          accepted,        \* history: events send_key has put into the ring
          got              \* history: events the guest's driver has reported

keyboardVars == <<events, made, key_queue, key_f, key_r, state, accepted, got>>

KEY_NONE == 0
KeyCodes == {k + d : k \in Keys, d \in {0, KEYDOWN_MASK}}
QUIT == [key |-> KEY_NONE, down |-> FALSE]
Event(k, d) == [key |-> k, down |-> d]

KeyboardTypeOK ==
  /\ key_f \in 0 .. KEY_QUEUE_LEN - 1
  /\ key_r \in 0 .. KEY_QUEUE_LEN - 1
  /\ key_queue \in [0 .. KEY_QUEUE_LEN - 1 -> KeyCodes \cup {KEY_NONE}]
  /\ state \in {"running", "stop", "quit", "abort"}

\* The user presses or releases a key, or closes the window.
UserEvent ==
  /\ made < MaxEvents
  /\ made' = made + 1
  /\ \E e \in {Event(k, d) : k \in Keys \cup {Unmapped}, d \in BOOLEAN} \cup {QUIT} :
       events' = Append(events, e)
  /\ UNCHANGED <<key_queue, key_f, key_r, state, accepted, got>>

ring == [queue |-> key_queue, f |-> key_f, r |-> key_r, state |-> state, log |-> accepted]

\* key_enqueue: the assertion is made after the key has been stored.
key_enqueue(s, code, e) ==
  LET r == (s.r + 1) % KEY_QUEUE_LEN IN
    [queue |-> [s.queue EXCEPT ![s.r] = code], f |-> s.f, r |-> r,
     state |-> IF r = s.f THEN "abort" ELSE s.state, log |-> Append(s.log, e)]

\* send_key: only while the guest runs, and only keys the keymap knows.
send_key(s, e) ==
  IF s.state = "running" /\ e.key \in Keys
  THEN key_enqueue(s, e.key + (IF e.down THEN KEYDOWN_MASK ELSE 0), e)
  ELSE s

\* One turn of the loop of device_update.
poll(s, e) == IF e = QUIT /\ s.state # "abort" THEN [s EXCEPT !.state = "quit"] ELSE send_key(s, e)

Polled[n \in 0 .. Len(events)] == IF n = 0 THEN ring ELSE poll(Polled[n - 1], events[n])

\* device_update, when its period has passed: drains every event.
device_update ==
  /\ state = "running"
  /\ events # <<>>
  /\ LET s == Polled[Len(events)] IN
     /\ key_queue' = s.queue
     /\ key_r' = s.r
     /\ state' = s.state
     /\ accepted' = s.log
  /\ events' = <<>>
  /\ UNCHANGED <<made, key_f, got>>

\* Faulty variant of decode: the mask is left in the key code.
decode_unmasked(code) ==
  [key |-> code, down |-> code >= KEYDOWN_MASK]

\* __am_input_keybrd on what it read.
decode(code) ==
  [key |-> code % KEYDOWN_MASK, down |-> (code \div KEYDOWN_MASK) % 2 = 1]

\* The guest reads the register: i8042_data_io_handler takes a key out.
__am_input_keybrd ==
  /\ state = "running"
  /\ IF key_f # key_r
     THEN /\ key_f' = (key_f + 1) % KEY_QUEUE_LEN
          /\ got' = Append(got, decode(key_queue[key_f]))
     ELSE UNCHANGED <<key_f, got>>      \* KEY_NONE
  /\ UNCHANGED <<events, made, key_queue, key_r, state, accepted>>

\* The guest stops at a breakpoint, a watchpoint or the end of a count.
Stop ==
  /\ state = "running"
  /\ state' = "stop"
  /\ UNCHANGED <<events, made, key_queue, key_f, key_r, accepted, got>>

\* sdb_mainloop empties SDL's queue before it runs a command: "c" here.
Continue ==
  /\ state = "stop"
  /\ state' = "running"
  /\ events' = <<>>
  /\ UNCHANGED <<made, key_queue, key_f, key_r, accepted, got>>

KeyboardEnded == state \in {"quit", "abort"} /\ UNCHANGED keyboardVars

KeyboardInit ==
  /\ events = <<>>
  /\ made = 0
  /\ key_queue = [i \in 0 .. KEY_QUEUE_LEN - 1 |-> KEY_NONE]
  /\ key_f = 0
  /\ key_r = 0
  /\ state = "stop"
  /\ accepted = <<>>
  /\ got = <<>>

KeyboardNext == UserEvent \/ device_update \/ __am_input_keybrd \/ Stop \/ Continue \/ KeyboardEnded
KeyboardSpec == KeyboardInit /\ [][KeyboardNext]_keyboardVars

-----------------------------------------------------------------------------
Pending == (key_r - key_f + KEY_QUEUE_LEN) % KEY_QUEUE_LEN
Waiting == [i \in 1 .. Pending |-> decode(key_queue[(key_f + i - 1) % KEY_QUEUE_LEN])]

\* What the guest's driver reports are the accepted keys, each once, in the
\* order of the user, with press and release told apart; those it has not
\* read yet are in the ring, whatever the positions have wrapped around.
KeysInOrder == state # "abort" => accepted = got \o Waiting

\* The assertion "key queue overflow!" stops NEMU exactly when as many keys
\* are unread as the ring has places: before that no key is lost.
OverflowWhenFull ==
  (state = "abort") <=> (Len(accepted) - Len(got) = KEY_QUEUE_LEN)

\* Keys reach the program decoded, complete and in order, through NEMU's ring;
\* a key is refused only by a full ring.
KeysDelivered == KeyboardTypeOK /\ KeysInOrder /\ OverflowWhenFull

-----------------------------------------------------------------------------
(***************************************************************************)
(* The keyboard driver of the SoC (abstract-machine, riscv/ysyxsoc/        *)
(* input.c).  The keyboard sends one to three bytes for a key: E0 for the  *)
(* extended ones, F0 for a release, then the code.  The driver is polled   *)
(* and may find the bytes of a key only in part; what it has seen of the   *)
(* prefixes it keeps in static variables until the next poll.              *)
(***************************************************************************)

CONSTANTS ScanCodes,        \* scan codes of the main table
          ExtCodes,     \* scan codes of the extended table
          MaxKeys,      \* bound: keys typed
          FifoLen       \* places of the controller's buffer

EXT == 224              \* 0xe0
BREAK == 240            \* 0xf0
EMPTY == 0

ASSUME CodesAssumption == {EXT, BREAK, EMPTY} \cap (ScanCodes \cup ExtCodes) = {}

VARIABLES line,         \* bytes the keyboard has still to send
          fifo,         \* bytes the controller has buffered
          break_code, extended,
          polling,      \* __am_input_keybrd is in its loop
          typed,        \* history: keys pressed and released
          reported      \* history: events returned, AM_KEY_NONE left out

ps2Vars == <<line, fifo, break_code, extended, polling, typed, reported>>

Key(ext, code, down) == [ext |-> ext, code |-> code, down |-> down]

\* The scan code set of the keyboard.
Bytes(k) == (IF k.ext THEN <<EXT>> ELSE <<>>) \o (IF k.down THEN <<>> ELSE <<BREAK>>) \o <<k.code>>

Type ==
  /\ Len(typed) < MaxKeys
  /\ \E ext \in BOOLEAN, down \in BOOLEAN : \E c \in IF ext THEN ExtCodes ELSE ScanCodes :
       LET k == Key(ext, c, down) IN
       /\ typed' = Append(typed, k)
       /\ line' = line \o Bytes(k)
  /\ UNCHANGED <<fifo, break_code, extended, polling, reported>>

\* A byte arrives at the controller.
Arrive ==
  /\ line # <<>>
  /\ Len(fifo) < FifoLen
  /\ fifo' = Append(fifo, Head(line))
  /\ line' = Tail(line)
  /\ UNCHANGED <<break_code, extended, polling, typed, reported>>

\* The program polls the keyboard.
Call ==
  /\ ~polling
  /\ polling' = TRUE
  /\ UNCHANGED <<line, fifo, break_code, extended, typed, reported>>

\* inb(PS2_ADDR): the next byte, or 0.
inb == IF fifo = <<>> THEN EMPTY ELSE Head(fifo)

\* The tables: the pair of table and code stands for the AM key.
Lookup(ext, code) == [ext |-> ext, code |-> code]

\* Faulty variant of Poll: the prefixes are forgotten when a poll ends.
Poll_forgets ==
  LET code == inb IN
  /\ polling
  /\ fifo' = IF fifo = <<>> THEN fifo ELSE Tail(fifo)
  /\ extended' = (code = EXT \/ (code = BREAK /\ extended))
  /\ break_code' = (code = BREAK \/ (code = EXT /\ break_code))
  /\ polling' = (code \in {EXT, BREAK})
  /\ reported' = IF code \in {EMPTY, EXT, BREAK} THEN reported
                 ELSE Append(reported, Key(Lookup(extended, code).ext, code, ~break_code))
  /\ UNCHANGED <<line, typed>>

\* One turn of the loop of __am_input_keybrd.
Poll ==
  LET code == inb IN
  /\ polling
  /\ fifo' = IF fifo = <<>> THEN fifo ELSE Tail(fifo)
  /\ CASE code = EMPTY -> polling' = FALSE /\ UNCHANGED <<extended, break_code, reported>>
       [] code = EXT   -> extended' = TRUE /\ UNCHANGED <<polling, break_code, reported>>
       [] code = BREAK -> break_code' = TRUE /\ UNCHANGED <<polling, extended, reported>>
       [] OTHER ->
            /\ reported' = Append(reported, Key(Lookup(extended, code).ext, code, ~break_code))
            /\ extended' = FALSE
            /\ break_code' = FALSE
            /\ polling' = FALSE
  /\ UNCHANGED <<line, typed>>

Ps2Init ==
  /\ line = <<>>
  /\ fifo = <<>>
  /\ break_code = FALSE
  /\ extended = FALSE
  /\ polling = FALSE
  /\ typed = <<>>
  /\ reported = <<>>

Ps2Next == Type \/ Arrive \/ Call \/ Poll
Ps2Spec == Ps2Init /\ [][Ps2Next]_ps2Vars

-----------------------------------------------------------------------------
\* Whatever bytes of a key a poll finds, the program is told the keys typed,
\* in order, with press and release and both tables told apart.
KeysDecoded ==
  /\ Len(reported) <= Len(typed)
  /\ \A i \in DOMAIN reported : reported[i] = typed[i]

-----------------------------------------------------------------------------
(***************************************************************************)
(* NEMU's frame buffer (nemu/src/device/vga.c) and the drivers of          *)
(* abstract-machine that draw on it.  The guest stores a rectangle pixel   *)
(* by pixel, row by row, and asks for the picture to be shown by writing   *)
(* the sync register; device_update looks at the register whenever its     *)
(* period has passed, also between two pixels.                             *)
(***************************************************************************)

CONSTANTS W, H,           \* screen_width(), screen_height()
          Colours,
          SyncValues,     \* what guests write to the sync register
          NotDrawing

ASSUME ScreenAssumption ==
  /\ W \in Nat \ {0} /\ H \in Nat \ {0}
  /\ SyncValues \subseteq {1}            \* ctl->sync is a bool

VARIABLES vmem,           \* the frame buffer, by index
          sync,           \* vgactl_port_base[1]
          shown,          \* the texture on the host's screen
          draw,           \* [x, y, w, h, colour, sync, i, j], or NotDrawing
          before,         \* history: vmem when the drawing began
          unsynced        \* history: pixels were stored since the last sync

screenVars == <<vmem, sync, shown, draw, before, unsynced>>

Index == 0 .. W * H - 1

\* __am_gpu_fbdraw is called with a rectangle inside of the screen.
BeginDraw ==
  /\ draw = NotDrawing
  /\ \E x \in 0 .. W - 1, y \in 0 .. H - 1, w \in 1 .. W, h \in 1 .. H, c \in Colours, s \in SyncValues \cup {0} :
       /\ x + w <= W
       /\ y + h <= H
       /\ draw' = [x |-> x, y |-> y, w |-> w, h |-> h, c |-> c, s |-> s, i |-> 0, j |-> 0]
  /\ before' = vmem
  /\ UNCHANGED <<vmem, sync, shown, unsynced>>

\* Faulty variant of PixelIndex: rows of the rectangle, not of the screen.
PixelIndex_narrow(d) == (d.y + d.i) * d.w + d.j + d.x

PixelIndex(d) == (d.y + d.i) * W + d.j + d.x

StorePixel ==
  /\ draw # NotDrawing
  /\ draw.i < draw.h
  /\ vmem' = [vmem EXCEPT ![PixelIndex(draw)] = draw.c]
  /\ draw' = IF draw.j + 1 < draw.w THEN [draw EXCEPT !.j = @ + 1]
             ELSE [draw EXCEPT !.j = 0, !.i = @ + 1]
  /\ unsynced' = TRUE
  /\ UNCHANGED <<sync, shown, before>>

EndDraw ==
  /\ draw # NotDrawing
  /\ draw.i = draw.h
  /\ draw' = NotDrawing
  /\ IF draw.s # 0 THEN sync' = draw.s /\ unsynced' = FALSE ELSE UNCHANGED <<sync, unsynced>>
  /\ UNCHANGED <<vmem, shown, before>>

\* Faulty variant of vga_update_screen: the register is cleared first.
vga_update_screen_early ==
  /\ sync' = 0
  /\ UNCHANGED <<vmem, shown, draw, before, unsynced>>

\* vga_update_screen, called by device_update.
vga_update_screen ==
  /\ shown' = IF sync = 1 THEN vmem ELSE shown
  /\ sync' = 0
  /\ UNCHANGED <<vmem, draw, before, unsynced>>

\* init_vga clears the memory; __am_gpu_init has drawn a first picture, which
\* is taken here as any.
ScreenInit ==
  /\ vmem \in {[p \in Index |-> c] : c \in Colours}
  /\ sync = 1
  /\ shown \in {[p \in Index |-> c] : c \in Colours}
  /\ draw = NotDrawing
  /\ before = vmem
  /\ unsynced = FALSE

ScreenNext == BeginDraw \/ StorePixel \/ EndDraw \/ vga_update_screen
ScreenSpec == ScreenInit /\ [][ScreenNext]_screenVars

-----------------------------------------------------------------------------
InRect(d, p) == p % W \in d.x .. d.x + d.w - 1 /\ p \div W \in d.y .. d.y + d.h - 1

\* A finished drawing has changed exactly the pixels of its rectangle.
DrawsRectangle ==
  draw # NotDrawing /\ draw.i = draw.h =>
    \A p \in Index : vmem[p] = IF InRect(draw, p) THEN draw.c ELSE before[p]

\* A sync that is no longer pending has been served: the screen shows every
\* pixel stored before it.
SyncShows == sync = 0 /\ ~unsynced => shown = vmem

\* The window shows, after a sync, exactly the rectangles that were drawn.
PictureShown == DrawsRectangle /\ SyncShows

-----------------------------------------------------------------------------
(***************************************************************************)
(* How NEMU gives addresses to devices (nemu/src/device/io and             *)
(* src/memory/paddr.c).  init_device registers the configured devices one  *)
(* after the other: new_space takes pages from the io space, add_mmio_map  *)
(* and add_pio_map enter a range.  Then the guest reads and writes: the    *)
(* memory is asked first, then the map whose range has the address.        *)
(* Addresses are of Width bits, and the code's arithmetic wraps with them. *)
(***************************************************************************)

CONSTANTS ADDRS,          \* addresses: 0 .. 2^Width - 1
          MBASE, MSIZE,   \* the physical memory
          PAGE,           \* PAGE_SIZE
          IO_SPACE_MAX,
          NR_MAP,
          PORT_MAX,       \* PORT_IO_SPACE_MAX
          Configurations, \* the devices a configuration may have
          Lengths         \* bytes of an access

Device == [addr : ADDRS, len : Nat \ {0}, port : BOOLEAN]

ASSUME IoMapAssumption ==
  /\ ADDRS = 0 .. Cardinality(ADDRS) - 1 /\ Cardinality(ADDRS) \in Nat \ {0}
  /\ Configurations \subseteq Seq(Device) /\ Lengths \subseteq Nat \ {0}
  /\ PAGE \in Nat \ {0}

VARIABLES todo,           \* devices init_device has still to register
          maps, ports,    \* the two tables: [low, high, space, len]
          p_space,        \* first free byte of the io space
          access,         \* the last access: [kind, addr, len, hit, bytes]
          phase           \* "init", "run", "panic"; "end" after one access,
                          \* which is enough: it changes no table

ioMapVars == <<todo, maps, ports, p_space, access, phase>>

Wrap(a) == a % Cardinality(ADDRS)
in_pmem(a) == Wrap(a - MBASE + Cardinality(ADDRS)) < MSIZE

\* Faulty variant of Pages: rounded down.
Pages_down(size) == (size \div PAGE) * PAGE

\* new_space: whole pages.
Pages(size) == ((size + PAGE - 1) \div PAGE) * PAGE

Entry(d) == [low |-> d.addr, high |-> Wrap(d.addr + d.len - 1), space |-> p_space, len |-> d.len]

\* Faulty variant of Overlaps: only the first address is looked at.
Overlaps_first(m) ==
  \/ in_pmem(m.low)
  \/ \E i \in DOMAIN maps : m.low <= maps[i].high /\ m.low >= maps[i].low

\* add_mmio_map panics on what it takes for an overlap.
Overlaps(m) ==
  \/ in_pmem(m.low)
  \/ in_pmem(m.high)
  \/ \E i \in DOMAIN maps : m.low <= maps[i].high /\ m.high >= maps[i].low

\* One init_xxx of init_device: a space and a map.
Register ==
  /\ phase = "init"
  /\ todo # <<>>
  /\ LET d == Head(todo)
         m == Entry(d)
         p == p_space + Pages(d.len)
         ok == /\ p < IO_SPACE_MAX
               /\ Len(IF d.port THEN ports ELSE maps) < NR_MAP
               /\ IF d.port THEN d.addr + d.len <= PORT_MAX ELSE ~Overlaps(m)
     IN /\ phase' = IF ok THEN phase ELSE "panic"
        /\ p_space' = IF ok THEN p ELSE p_space
        /\ ports' = IF ok /\ d.port THEN Append(ports, m) ELSE ports
        /\ maps' = IF ok /\ ~d.port THEN Append(maps, m) ELSE maps
        /\ todo' = Tail(todo)
  /\ UNCHANGED access

Start ==
  /\ phase = "init"
  /\ todo = <<>>
  /\ phase' = "run"
  /\ UNCHANGED <<todo, maps, ports, p_space, access>>

map_inside(m, a) == m.low <= a /\ a <= m.high

\* find_mapid_by_addr: the first map that has the address, or 0.
find_mapid_by_addr(table, a) ==
  IF \E i \in DOMAIN table : map_inside(table[i], a)
  THEN CHOOSE i \in DOMAIN table : /\ map_inside(table[i], a)
                                   /\ \A k \in 1 .. i - 1 : ~map_inside(table[k], a)
  ELSE 0

\* The bytes of the io space map_read and map_write touch: only the address
\* of the first one is checked.
Touched(m, a, n) == {m.space + Wrap(a - m.low + Cardinality(ADDRS)) + k : k \in 0 .. n - 1}

Access(kind, table, a, n) ==
  LET i == find_mapid_by_addr(table, a) IN
    IF i = 0 THEN phase' = "panic" /\ UNCHANGED access
    ELSE /\ access' = [kind |-> kind, addr |-> a, len |-> n, hit |-> i, bytes |-> Touched(table[i], a, n)]
         /\ phase' = "end"

\* paddr_read and paddr_write: the memory, then mmio_read and mmio_write.
paddr_access ==
  /\ phase = "run"
  /\ \E a \in ADDRS, n \in Lengths :
       IF in_pmem(a)
       THEN /\ access' = [kind |-> "pmem", addr |-> a, len |-> n, hit |-> 0, bytes |-> {}]
            /\ phase' = "end"
       ELSE Access("mmio", maps, a, n)
  /\ UNCHANGED <<todo, maps, ports, p_space>>

\* pio_read and pio_write.
pio_access ==
  /\ phase = "run"
  /\ ports # <<>>
  /\ \E a \in ADDRS, n \in Lengths :
       IF a + n - 1 < PORT_MAX THEN Access("pio", ports, a, n)
       ELSE phase' = "panic" /\ UNCHANGED access
  /\ UNCHANGED <<todo, maps, ports, p_space>>

IoMapEnded == phase \in {"panic", "end"} /\ UNCHANGED ioMapVars

IoMapInit ==
  /\ todo \in Configurations
  /\ maps = <<>>
  /\ ports = <<>>
  /\ p_space = 0
  /\ access = [kind |-> "none", addr |-> 0, len |-> 0, hit |-> 0, bytes |-> {}]
  /\ phase = "init"

IoMapNext == Register \/ Start \/ paddr_access \/ pio_access \/ IoMapEnded
IoMapSpec == IoMapInit /\ [][IoMapNext]_ioMapVars

-----------------------------------------------------------------------------
Addresses(m) == {a \in ADDRS : map_inside(m, a)}
Table(kind) == IF kind = "pio" THEN ports ELSE maps
Own(m) == m.space .. m.space + m.len - 1

\* No address belongs to two memory-mapped devices, so which one answers does
\* not depend on the order of init_device.
MapsDisjoint ==
  \A i, k \in DOMAIN maps : i # k => Addresses(maps[i]) \cap Addresses(maps[k]) = {}

\* The bytes of the io space belong to one device each, whether it is reached
\* by address or by port.
SpacesDisjoint ==
  LET all == maps \o ports IN
    \A i, k \in DOMAIN all : i # k => Own(all[i]) \cap Own(all[k]) = {}

\* An access that starts and ends in the range of a device touches bytes of
\* that device only: those of the registers from its address on.
AccessStaysInside ==
  access.kind \in {"mmio", "pio"} =>
    LET m == Table(access.kind)[access.hit]
        first == m.space + (access.addr - m.low) IN
      access.addr + access.len - 1 <= m.high =>
        /\ access.bytes \subseteq Own(m)
        /\ access.bytes = first .. first + access.len - 1

\* However devices are added, an accepted access belongs to one device and
\* stays within its registers, and within its part of the buffer.
DevicesSeparate == MapsDisjoint /\ SpacesDisjoint /\ AccessStaysInside

-----------------------------------------------------------------------------
(***************************************************************************)
(* The 64-bit clock read in two halves by __am_timer_uptime.  On the NPC   *)
(* the halves are mtime of the CLINT, which counts on between the reads;   *)
(* in NEMU (nemu/src/device/timer.c) a read of the upper half latches      *)
(* both, and the debugger may read the register at any time between the    *)
(* reads of the guest.  RADIX stands for 2^32.                             *)
(***************************************************************************)

CONSTANTS RADIX, MaxTime

ASSUME ClockAssumption == RADIX \in Nat \ {0} /\ MaxTime \in Nat

VARIABLES latching,     \* NEMU's register rather than the CLINT's
          time,         \* get_time(), or mtime
          port,         \* rtc_port_base: [lo, hi]
          pc,
          high1, low,
          began,        \* history: the time when the call began
          last          \* history: what the last call returned

uptimeVars == <<latching, time, port, pc, high1, low, began, last>>

Halves(t) == [lo |-> t % RADIX, hi |-> t \div RADIX]

Tick ==
  /\ time < MaxTime
  /\ time' = time + 1
  /\ UNCHANGED <<latching, port, pc, high1, low, began, last>>

\* rtc_io_handler for a read of offset 4; a read of offset 0 changes nothing.
rtc_io_handler == port' = IF latching THEN Halves(time) ELSE port

HiValue == time \div RADIX
LoValue == IF latching THEN port.lo ELSE time % RADIX

ReadHigh1 ==
  /\ pc = "high1"
  /\ rtc_io_handler
  /\ high1' = HiValue
  /\ pc' = "low"
  /\ UNCHANGED <<latching, time, low, began, last>>

ReadLow ==
  /\ pc = "low"
  /\ low' = LoValue
  /\ pc' = "high2"
  /\ UNCHANGED <<latching, time, port, high1, began, last>>

\* Faulty variant of ReadHigh2: the halves are never read again.
ReadHigh2_once ==
  /\ pc = "high2"
  /\ rtc_io_handler
  /\ pc' = "return"
  /\ UNCHANGED <<latching, time, high1, low, began, last>>

\* The loop ends when the upper half is the same before and after.
ReadHigh2 ==
  /\ pc = "high2"
  /\ rtc_io_handler
  /\ pc' = IF high1 # HiValue THEN "high1" ELSE "return"
  /\ UNCHANGED <<latching, time, high1, low, began, last>>

Return ==
  /\ pc = "return"
  /\ last' = high1 * RADIX + low
  /\ began' = time
  /\ pc' = "high1"
  /\ UNCHANGED <<latching, time, port, high1, low>>

\* The debugger of NEMU examines the upper half of the register.
Peek ==
  /\ latching
  /\ rtc_io_handler
  /\ UNCHANGED <<latching, time, pc, high1, low, began, last>>

UptimeInit ==
  /\ latching \in BOOLEAN
  /\ time = 0
  /\ port = Halves(0)
  /\ pc = "high1"
  /\ high1 = 0
  /\ low = 0
  /\ began = 0
  /\ last = 0

UptimeNext == Tick \/ ReadHigh1 \/ ReadLow \/ ReadHigh2 \/ Return \/ Peek
UptimeSpec == UptimeInit /\ [][UptimeNext]_uptimeVars

-----------------------------------------------------------------------------
\* The time returned was the time at some moment of the call, although the
\* halves are read at different moments and the clock carries in between.  So the time of one
\* call is never after that of the next.
TimeOfCall == [][last' # last => last' \in began .. time]_uptimeVars
=============================================================================
