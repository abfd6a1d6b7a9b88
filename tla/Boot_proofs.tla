----------------------------- MODULE Boot_proofs -----------------------------
(***************************************************************************)
(* That main() of threads/init.c does what module Boot says of it, for     *)
(* every command line, machine and amount of memory.                       *)
(***************************************************************************)
EXTENDS Boot, QueueLemmas

-----------------------------------------------------------------------------
(* Calibration.                                                            *)

\* A power of two that is doubled stays a multiple of the one the search began
\* with, and the product is 0 only when its bit was shifted out.
LEMMA TwiceFacts ==
  ASSUME CalInv, search = "double"
  PROVE  /\ twice \in Nat /\ twice % START = 0 /\ twice < MODULUS
         /\ 2 * loops_per_tick >= twice
         /\ twice = 0 => 2 * loops_per_tick = MODULUS
         /\ 2 * (loops_per_tick \div 2) = loops_per_tick
         /\ loops_per_tick \div 2 = 512 * (loops_per_tick \div FRACTION)
         /\ loops_per_tick % FRACTION = 0
<1> DEFINE l == loops_per_tick
<1>1. l \in Nat /\ l > 0 /\ l < MODULUS /\ l % 1024 = 0 /\ MODULUS \in Nat /\ MODULUS % 1024 = 0
  BY CalibrationAssumption DEF CalInv, START
<1>2. twice = IF 2 * l < MODULUS THEN 2 * l ELSE 2 * l - MODULUS
  BY <1>1 DEF twice
<1> HIDE DEF l
<1>3. /\ 2 * (l \div 2) = l
      /\ l \div 2 = 512 * (l \div 1024)
  BY <1>1
<1>4. (2 * l) % 1024 = 0 /\ (2 * l - MODULUS) % 1024 = 0
  BY <1>1
<1> QED BY <1>1, <1>2, <1>3, <1>4 DEF START, FRACTION, l

\* What the measurement says: without too many loops they fit in a tick, with
\* too many they are more than the least it could have found.
LEMMA Measured ==
  ASSUME NEW loops \in Nat, NEW many \in too_many_loops(loops), speed \in Nat
  PROVE  /\ ~many => loops <= speed
         /\ many => loops > speed - Jitter
<1>1. PICK s \in (speed - Jitter)..speed : many = (loops > s)
  BY DEF too_many_loops
<1>2. Jitter \in Nat
  BY CalibrationAssumption
<1>3. s \in Int /\ speed - Jitter <= s /\ s <= speed
  BY <1>2
<1>4. loops > s => loops > speed - Jitter
  BY <1>2, <1>3
<1>5. ~(loops > s) => loops <= speed
  BY <1>3
<1> QED BY <1>1, <1>4, <1>5, Zenon

\* Each step of timer_calibrate keeps the invariant of the search.
LEMMA CalibrationStep ==
  ASSUME CalInv, CalibrateStart \/ Calibrate
  PROVE  CalInv'
<1>0. /\ speed \in Nat /\ loops_per_tick \in Nat /\ high_bit \in Nat /\ test_bit \in Nat
      /\ Jitter \in Nat /\ MODULUS \in Nat /\ 2048 < MODULUS
  BY CalibrationAssumption DEF CalInv, START
<1>1. CASE CalibrateStart
  BY <1>0, <1>1 DEF CalInv, CalibrateStart, START
<1>2. CASE Double
  <2>0. search = "double" /\ speed' = speed
    BY <1>2 DEF Double
  <2>1. /\ twice \in Nat /\ twice % START = 0 /\ twice < MODULUS
        /\ 2 * loops_per_tick >= twice
        /\ twice = 0 => 2 * loops_per_tick = MODULUS
        /\ 2 * (loops_per_tick \div 2) = loops_per_tick
        /\ loops_per_tick \div 2 = 512 * (loops_per_tick \div FRACTION)
        /\ loops_per_tick % FRACTION = 0
        /\ loops_per_tick \div 2 \in Nat
    BY <1>0, <2>0, TwiceFacts
  <2>2. loops_per_tick > 0 /\ (loops_per_tick <= speed \/ loops_per_tick = START)
    BY <2>0 DEF CalInv
  <2>3. PICK many \in too_many_loops(twice) :
            IF many
            THEN /\ high_bit' = loops_per_tick
                 /\ test_bit' = loops_per_tick \div 2
                 /\ search' = "refine"
                 /\ loops_per_tick' = loops_per_tick
            ELSE /\ loops_per_tick' = twice
                 /\ search' = IF twice = 0 THEN "panic" ELSE search
                 /\ high_bit' = high_bit /\ test_bit' = test_bit
    BY <1>2 DEF Double
  <2>4. /\ ~many => twice <= speed
        /\ many => twice > speed - Jitter
    BY <1>0, <2>1, Measured
  <2> HIDE DEF twice
  <2>5. CASE many
    <3>1. /\ high_bit' = loops_per_tick /\ test_bit' = loops_per_tick \div 2
          /\ search' = "refine" /\ loops_per_tick' = loops_per_tick
      BY <2>3, <2>5
    <3>2. test_bit' \in BitsBelow(high_bit' \div FRACTION) /\ high_bit' % FRACTION = 0
      BY <2>1, <3>1 DEF BitsBelow
    <3>3. loops_per_tick' + 2 * test_bit' > speed' - Jitter
      BY <1>0, <2>0, <2>1, <2>4, <2>5, <3>1
    <3> QED BY <1>0, <2>0, <2>1, <2>2, <3>1, <3>2, <3>3 DEF CalInv
  <2>6. CASE ~many /\ twice = 0
    <3>1. 2 * speed >= MODULUS
      BY <1>0, <2>1, <2>2, <2>6 DEF START
    <3> QED BY <1>0, <2>0, <2>1, <2>3, <2>6, <3>1 DEF CalInv
  <2>7. CASE ~many /\ twice # 0
    BY <1>0, <2>0, <2>1, <2>3, <2>4, <2>7 DEF CalInv
  <2> QED BY <2>4, <2>5, <2>6, <2>7
<1>3. CASE Refine
  <2> DEFINE m == high_bit \div FRACTION
  <2>0. search = "refine" /\ test_bit # m /\ search' = search
        /\ speed' = speed /\ high_bit' = high_bit /\ test_bit' = test_bit \div 2
    BY <1>3 DEF Refine
  <2>1. m \in Nat /\ high_bit % FRACTION = 0 /\ test_bit \in BitsBelow(m)
        /\ loops_per_tick + 2 * test_bit > speed - Jitter
        /\ loops_per_tick > 0 /\ (loops_per_tick <= speed \/ loops_per_tick = START)
    BY <1>0, <2>0 DEF CalInv, FRACTION
  <2>2. PICK many \in too_many_loops(loops_per_tick + test_bit) :
            loops_per_tick' = IF many THEN loops_per_tick ELSE loops_per_tick + test_bit
    BY <1>3 DEF Refine
  <2>3. /\ ~many => loops_per_tick + test_bit <= speed
        /\ many => loops_per_tick + test_bit > speed - Jitter
    BY <1>0, Measured
  <2> HIDE DEF m
  <2>4. test_bit \div 2 \in BitsBelow(m) /\ 2 * (test_bit \div 2) = test_bit
        /\ test_bit \div 2 \in Nat
    BY <1>0, <2>0, <2>1 DEF BitsBelow
  <2>5. /\ loops_per_tick' \in Nat /\ loops_per_tick' > 0
        /\ loops_per_tick' <= speed' \/ loops_per_tick' = START
        /\ loops_per_tick' + 2 * test_bit' > speed' - Jitter
    BY <1>0, <2>0, <2>1, <2>2, <2>3, <2>4
  <2>6. test_bit' \in BitsBelow(high_bit' \div FRACTION) /\ high_bit' % FRACTION = 0
    BY <2>0, <2>1, <2>4 DEF m
  <2>7. {speed, loops_per_tick, high_bit, test_bit}' \subseteq Nat
    BY <1>0, <2>0, <2>4, <2>5
  <2> QED BY <2>0, <2>5, <2>6, <2>7 DEF CalInv
<1>4. CASE Refined
  BY <1>0, <1>4 DEF CalInv, Refined
<1> QED BY <1>1, <1>2, <1>3, <1>4 DEF Calibrate

\* The invariant says what CalibrationClosesIn does.
LEMMA CalibrationInvariant == CalInv => CalibrationClosesIn
BY DEF CalInv, CalibrationClosesIn

\* The products in the two divisions of real_time_delay.
LEMMA Products ==
  ASSUME NEW l \in Nat, NEW num \in Nat, NEW freq \in Nat
  PROVE  LET q == (l * num) \div 1000
             r == (l * num) % 1000
         IN /\ l * num = 1000 * q + r /\ q \in Nat /\ r \in 0..999
            /\ l * num * freq = 1000 * (q * freq) + r * freq
            /\ q * freq \in Nat /\ r * freq \in Nat
            /\ r * freq <= 999 * freq
<1> DEFINE a == l * num
           q == a \div 1000
           r == a % 1000
<1>1. a \in Nat
  OBVIOUS
<1> HIDE DEF a
<1>2. a = 1000 * q + r /\ q \in Nat /\ r \in 0..999
  BY <1>1
<1> HIDE DEF q, r
<1>3. a * freq = 1000 * (q * freq) + r * freq
  BY <1>2
<1>4. q * freq \in Nat /\ r * freq \in Nat
  BY <1>2
<1>5. r * freq <= 999 * freq
  BY <1>2
<1> QED BY <1>2, <1>3, <1>4, <1>5 DEF a, q, r

\* The two divisions of real_time_delay against one, with x = q * freq,
\* y = r * freq of the products, and d one of 1, 1000 and 1000000.
LEMMA TwoDivisions ==
  ASSUME NEW x \in Nat, NEW y \in Nat, NEW freq \in Nat, y <= 999 * freq, NEW l \in Nat,
         NEW d \in {1, 1000, 1000000}
  PROVE  LET loops == x \div d
             exact == (1000 * x + y) \div (1000 * d)
         IN /\ loops <= exact
            /\ exact <= loops + freq \div d + 1
            /\ x < d * l => loops < l
<1>1. CASE d = 1
  BY <1>1
<1>2. CASE d = 1000
  BY <1>2
<1>3. CASE d = 1000000
  BY <1>3
<1> QED BY <1>1, <1>2, <1>3

\* A time of less than a tick takes less than a tick's rounds.
LEMMA BelowATick ==
  ASSUME NEW l \in Nat \ {0}, NEW num \in Nat, NEW freq \in Nat, NEW d \in Nat \ {0},
         NEW x \in Nat, num * freq < 1000 * d, 1000 * x <= l * num * freq
  PROVE  x < d * l
<1> DEFINE z == num * freq
<1>1. z \in Nat /\ l * num * freq = l * z
  OBVIOUS
<1> HIDE DEF z
<1>2. z <= 1000 * d - 1
  BY <1>1 DEF z
<1>3. l * z <= l * (1000 * d - 1)
  BY <1>1, <1>2
<1>4. l * (1000 * d - 1) = 1000 * (d * l) - l
  OBVIOUS
<1>5. d * l \in Nat
  OBVIOUS
<1> QED BY <1>1, <1>3, <1>4, <1>5

\* A product that fits in an int64_t is kept as it is, and so are its quotient by
\* 1000 and that times the timer frequency.
LEMMA InRange ==
  ASSUME NEW a \in Nat, a < INT64_RANGE \div 2
  PROVE  /\ int64(a) = a
         /\ \A b \in Nat \ {0} : int64_div(a, b) = a \div b
         /\ LET x == (a \div 1000) * TIMER_FREQ IN x \in Nat /\ x < INT64_RANGE \div 2
<1>1. /\ INT64_RANGE \in Nat \ {0} /\ INT64_RANGE \div 2 \in Nat
      /\ 2 * (INT64_RANGE \div 2) <= INT64_RANGE
      /\ TIMER_FREQ \in Nat /\ TIMER_FREQ <= 1000
  BY CalibrationAssumption
<1>2. int64(a) = a
  <2> DEFINE half == INT64_RANGE \div 2
  <2>1. half \in Nat /\ a < half /\ 2 * half <= INT64_RANGE
    BY <1>1
  <2> HIDE DEF half
  <2>2. (a + half) % INT64_RANGE = a + half
    BY <1>1, <2>1
  <2> QED BY <2>1, <2>2 DEF int64, half
<1>3. \A b \in Nat \ {0} : int64_div(a, b) = a \div b
  BY DEF int64_div
<1>4. (a \div 1000) * TIMER_FREQ \in Nat /\ (a \div 1000) * TIMER_FREQ <= a
  <2> DEFINE q == a \div 1000
  <2>1. q \in Nat /\ q * 1000 <= a
    OBVIOUS
  <2> HIDE DEF q
  <2>2. PICK m \in Nat : 1000 = TIMER_FREQ + m
    BY <1>1, 1000 = TIMER_FREQ + (1000 - TIMER_FREQ)
  <2>3. q * 1000 = q * TIMER_FREQ + q * m /\ q * TIMER_FREQ \in Nat /\ q * m \in Nat
    BY <1>1, <2>1, <2>2
  <2> QED BY <2>1, <2>3 DEF q
<1> QED BY <1>1, <1>2, <1>3, <1>4

\* The invariant of the search gives DelaysRoundDown.
LEMMA DelayInvariant == CalInv => DelaysRoundDown
<1> SUFFICES ASSUME CalInv, search = "done",
                    NEW num \in Amounts, NEW denom \in denominators,
                    loops_per_tick * num < INT64_RANGE \div 2
             PROVE  LET loops == real_time_delay(num, denom)
                        exact == (loops_per_tick * num * TIMER_FREQ) \div denom
                    IN /\ loops <= exact
                       /\ exact <= loops + TIMER_FREQ \div (denom \div 1000) + 1
                       /\ /\ num * TIMER_FREQ < INT64_RANGE \div 2
                          /\ real_time_ticks(num, denom) = 0
                          => loops < loops_per_tick
  BY DEF DelaysRoundDown
<1> DEFINE l == loops_per_tick
           f == TIMER_FREQ
           d == denom \div 1000
           a == l * num
           q == a \div 1000
           r == a % 1000
           x == q * f
           y == r * f
<1>1. l \in Nat \ {0} /\ num \in Nat /\ f \in Nat
  BY CalibrationAssumption DEF CalInv
<1>2. d \in {1, 1000, 1000000} /\ denom = 1000 * d /\ denom \in Nat \ {0}
  BY DEF denominators
<1>3. l * num * f = 1000 * x + y /\ x \in Nat /\ y \in Nat /\ y <= 999 * f
  BY <1>1, Products
<1>4. real_time_delay(num, denom) = x \div d
  <2>1. a \in Nat /\ a < INT64_RANGE \div 2
    BY <1>1
  <2>2. int64(a) = a /\ int64_div(a, 1000) = q /\ x < INT64_RANGE \div 2
    <3> HIDE DEF a
    <3> QED BY <2>1, InRange
  <2>3. int64(x) = x /\ int64_div(x, d) = x \div d
    <3> HIDE DEF x, d
    <3> QED BY <1>2, <1>3, <2>2, InRange
  <2>4. real_time_delay(num, denom) = int64_div(int64(int64_div(int64(a), 1000) * f), d)
    BY DEF real_time_delay
  <2> HIDE DEF a, d
  <2> QED BY <2>2, <2>3, <2>4
<1> HIDE DEF l, f, d, a, q, r, x, y
<1>5. (l * num * f) \div denom = (1000 * x + y) \div (1000 * d)
  BY <1>2, <1>3
<1>6. /\ x \div d <= (1000 * x + y) \div (1000 * d)
      /\ (1000 * x + y) \div (1000 * d) <= x \div d + f \div d + 1
      /\ x < d * l => x \div d < l
  BY <1>1, <1>2, <1>3, TwoDivisions
<1>7. ASSUME num * f < INT64_RANGE \div 2, real_time_ticks(num, denom) = 0
      PROVE  x < d * l
  <2> DEFINE z == num * f
  <2>1. z \in Nat /\ z < INT64_RANGE \div 2
    BY <1>1, <1>7
  <2>2. int64_div(int64(z), denom) = 0
    BY <1>7 DEF real_time_ticks, f
  <2> HIDE DEF z
  <2>3. z \div denom = 0
    BY <1>2, <2>1, <2>2, InRange
  <2>4. z < 1000 * d
    BY <1>2, <2>1, <2>3
  <2>5. 1000 * x <= l * num * f /\ d \in Nat \ {0}
    BY <1>2, <1>3
  <2> QED BY <1>1, <1>3, <2>4, <2>5, BelowATick DEF z
<1> QED BY <1>4, <1>5, <1>6, <1>7 DEF l, f, d

-----------------------------------------------------------------------------
(* Paging.                                                                 *)

\* Multiples of ENTRIES are in the order of their factors.
LEMMA Multiples ==
  ASSUME NEW E \in Nat \ {0}, NEW a \in Int, NEW b \in Int
  PROVE  /\ a * E \in Int /\ b * E \in Int
         /\ a < b => a * E + E <= b * E
         /\ a * E < b * E => a < b
<1>1. a * E \in Int /\ b * E \in Int
  OBVIOUS
<1>2. \A x, y \in Int : x < y => x * E + E <= y * E
  <2>1. ASSUME NEW x \in Int, NEW y \in Int, x < y
        PROVE  x * E + E <= y * E
    <3>1. PICK z \in Nat : y = x + 1 + z
      BY <2>1, y = x + 1 + (y - x - 1)
    <3>2. y * E = x * E + E + z * E
      BY <3>1
    <3>3. z * E >= 0
      BY <3>1
    <3> QED BY <3>1, <3>2, <3>3
  <2> QED BY <2>1
<1>3. ASSUME a * E < b * E, b <= a
      PROVE  FALSE
  <2>1. b = a \/ b < a
    BY <1>3
  <2> QED BY <1>1, <1>2, <1>3, <2>1
<1> QED BY <1>1, <1>2, <1>3

\* A page has one place in the directory and one in a page table.
LEMMA Places ==
  ASSUME NEW n \in Nat
  PROVE  /\ ENTRIES \in Nat \ {0}
         /\ pd_no(n) \in Nat /\ pt_no(n) \in 0..(ENTRIES - 1)
         /\ pd_no(n) * ENTRIES \in Nat
         /\ n = pd_no(n) * ENTRIES + pt_no(n)
         /\ pd_no(n) * ENTRIES <= n /\ n < pd_no(n) * ENTRIES + ENTRIES
<1>1. ENTRIES \in Nat \ {0}
  BY PagingAssumption
<1>2. n \div ENTRIES \in Nat /\ n % ENTRIES \in 0..(ENTRIES - 1)
  BY <1>1
<1>3. n = (n \div ENTRIES) * ENTRIES + (n % ENTRIES)
  BY <1>1
<1>4. (n \div ENTRIES) * ENTRIES \in Nat
  BY <1>1, <1>2
<1> QED BY <1>1, <1>2, <1>3, <1>4 DEF pd_no, pt_no

\* The page tables are as many as the pages mapped so far need.
LEMMA TableCount ==
  ASSUME PagingInv, paging = "map"
  PROVE  /\ pd[pd_no(page)] # 0 => Len(tables) = pd_no(page) + 1
         /\ pd[pd_no(page)] = 0 => /\ Len(tables) = pd_no(page)
                                   /\ page = pd_no(page) * ENTRIES
         /\ pd_no(page) \in DOMAIN pd
<1> DEFINE i0 == pd_no(page)
           n == Len(tables)
           E == ENTRIES
<1>1. /\ page \in Nat /\ page <= init_ram_pages /\ init_ram_pages \in Nat
      /\ DOMAIN pd = 0..pd_no(init_ram_pages)
      /\ \A k \in DOMAIN pd : pd[k] = IF k * E < page THEN k + 1 ELSE 0
      /\ n \in Nat /\ n * E >= page /\ \A k \in 1..n : (k - 1) * E < page
  BY LenProperties DEF PagingInv
<1>2. /\ E \in Nat \ {0} /\ i0 \in Nat /\ i0 * E \in Nat
      /\ i0 * E <= page /\ page < i0 * E + E
  BY <1>1, Places
<1>3. /\ pd_no(init_ram_pages) \in Nat /\ pd_no(init_ram_pages) * E \in Nat
      /\ init_ram_pages < pd_no(init_ram_pages) * E + E
  BY <1>1, Places
<1> HIDE DEF i0, n, E
<1>4. i0 \in DOMAIN pd
  <2>1. ASSUME pd_no(init_ram_pages) < i0
        PROVE  FALSE
    <3>1. pd_no(init_ram_pages) * E + E <= i0 * E
      BY <1>2, <1>3, <2>1, Multiples
    <3> QED BY <1>1, <1>2, <1>3, <3>1
  <2> QED BY <1>1, <1>2, <1>3, <2>1
<1>5. n # 0 => (n - 1) * E < page
  BY <1>1
<1>6. n * E \in Nat /\ (n - 1) * E \in Int
  BY <1>1, <1>2, Multiples
<1>7. CASE i0 * E < page
  <2>1. i0 * E < n * E
    BY <1>1, <1>2, <1>6, <1>7
  <2>2. i0 < n
    BY <1>1, <1>2, <2>1, Multiples
  <2>3. ASSUME i0 < n - 1
        PROVE  FALSE
    <3>1. i0 * E + E <= (n - 1) * E
      BY <1>1, <1>2, <2>3, Multiples
    <3> QED BY <1>1, <1>2, <1>5, <1>6, <2>2, <3>1
  <2>4. n = i0 + 1
    BY <1>1, <1>2, <2>2, <2>3
  <2> QED BY <1>1, <1>2, <1>4, <1>7, <2>4 DEF i0, n
<1>8. CASE ~(i0 * E < page)
  <2>1. page = i0 * E
    BY <1>1, <1>2, <1>8
  <2>2. ASSUME n < i0
        PROVE  FALSE
    <3>1. n * E + E <= i0 * E
      BY <1>1, <1>2, <2>2, Multiples
    <3> QED BY <1>1, <1>2, <1>6, <2>1, <3>1
  <2>3. ASSUME i0 < n
        PROVE  FALSE
    <3>1. (n - 1) * E < i0 * E
      BY <1>1, <1>5, <2>1, <2>3, <1>2
    <3>2. n - 1 < i0
      BY <1>1, <1>2, <3>1, Multiples
    <3> QED BY <1>1, <1>2, <2>3, <3>2
  <2>4. n = i0
    BY <1>1, <1>2, <2>2, <2>3
  <2> QED BY <1>1, <1>2, <1>4, <1>8, <2>1, <2>4 DEF i0, n, E
<1> QED BY <1>7, <1>8

PageTable == [0..(ENTRIES - 1) -> [frame : Int, writable : BOOLEAN]]

\* Entries of page tables are of their type, and a new table is a page table.
LEMMA EntryTypes ==
  /\ \A n \in Int : pte_create_kernel(n) \in [frame : Int, writable : BOOLEAN]
  /\ NewTable \in PageTable
<1>1. ASSUME NEW n \in Int
      PROVE  pte_create_kernel(n) \in [frame : Int, writable : BOOLEAN]
  BY DEF pte_create_kernel
<1>2. NotMapped \in [frame : Int, writable : BOOLEAN]
  BY DEF NotMapped
<1> QED BY <1>1, <1>2 DEF NewTable, PageTable

\* Writing the entry of the page to be mapped next, ts being the page tables
\* with one for that page.
LEMMA WritePte ==
  ASSUME PagingInv, paging = "map", page < init_ram_pages,
         NEW ts \in Seq(PageTable), Len(ts) = pd_no(page) + 1,
         \A k \in 1..Len(ts), j \in 0..(ENTRIES - 1) :
             ts[k][j] = IF (k - 1) * ENTRIES + j < page
                        THEN pte_create_kernel((k - 1) * ENTRIES + j) ELSE NotMapped,
         write_pte(ts), DOMAIN pd' = DOMAIN pd,
         \A k \in DOMAIN pd : pd'[k] = IF k = pd_no(page) THEN k + 1 ELSE pd[k],
         paging' = paging, init_ram_pages' = init_ram_pages, pool' \in Nat
  PROVE  PagingInv'
<1> DEFINE i0 == pd_no(page)
           j0 == pt_no(page)
           E == ENTRIES
           R == [frame : Int, writable : BOOLEAN]
<1>1. /\ page \in Nat /\ page + 1 <= init_ram_pages /\ init_ram_pages \in Nat
      /\ page' = page + 1
      /\ DOMAIN pd = 0..pd_no(init_ram_pages)
      /\ \A k \in DOMAIN pd : pd[k] = IF k * E < page THEN k + 1 ELSE 0
  BY DEF PagingInv, write_pte
<1>2. /\ E \in Nat \ {0} /\ i0 \in Nat /\ i0 * E \in Nat /\ j0 \in 0..(E - 1)
      /\ i0 * E <= page /\ page < i0 * E + E /\ page = i0 * E + j0
      /\ pd_no(init_ram_pages) \in Nat
  BY <1>1, Places
<1>3. /\ tables' = [ts EXCEPT ![Len(ts)] = [ts[Len(ts)] EXCEPT ![j0] = pte_create_kernel(page)]]
      /\ Len(ts) = i0 + 1
  BY DEF write_pte
<1>4. ts[Len(ts)] \in PageTable /\ Len(ts) \in 1..Len(ts) /\ Len(ts) \in Nat
  BY <1>2, <1>3, ElementOfSeq, LenProperties
<1>5. pte_create_kernel(page) \in R
  BY <1>1, EntryTypes
<1>6. [ts[Len(ts)] EXCEPT ![j0] = pte_create_kernel(page)] \in PageTable
  BY <1>2, <1>4, <1>5 DEF PageTable
<1>7. /\ tables' \in Seq(PageTable) /\ Len(tables') = i0 + 1
      /\ \A k \in 1..(i0 + 1) : k # i0 + 1 => tables'[k] = ts[k]
      /\ tables'[i0 + 1] = [ts[i0 + 1] EXCEPT ![j0] = pte_create_kernel(page)]
  BY <1>3, <1>4, <1>6, ExceptSeq
<1>8. /\ \A j \in 0..(E - 1) : j # j0 => tables'[i0 + 1][j] = ts[i0 + 1][j]
      /\ tables'[i0 + 1][j0] = pte_create_kernel(page)
  <2> DEFINE t == ts[i0 + 1]
  <2>1. t \in PageTable
    BY <1>3, <1>4
  <2>2. DOMAIN t = 0..(E - 1)
    BY <2>1 DEF PageTable
  <2>3. tables'[i0 + 1] = [t EXCEPT ![j0] = pte_create_kernel(page)]
    BY <1>7
  <2> HIDE DEF t
  <2>4. /\ \A j \in 0..(E - 1) : j # j0 => tables'[i0 + 1][j] = t[j]
        /\ tables'[i0 + 1][j0] = pte_create_kernel(page)
    BY <1>2, <2>2, <2>3
  <2> QED BY <2>4 DEF t
<1> HIDE DEF i0, j0, E
<1>9. ASSUME NEW k \in Nat
      PROVE  /\ k * E \in Int
             /\ k < i0 => k * E + E <= i0 * E
             /\ i0 < k => i0 * E + E <= k * E
  BY <1>2, Multiples
<1>10. ASSUME NEW k \in 0..pd_no(init_ram_pages)
       PROVE  pd'[k] = IF k * E < page + 1 THEN k + 1 ELSE 0
  <2>1. k \in Nat /\ (k < i0 \/ k = i0 \/ i0 < k)
    BY <1>2
  <2>2. k = i0 => k * E < page + 1
    BY <1>1, <1>2
  <2>3. k # i0 => (k * E < page <=> k * E < page + 1)
    BY <1>1, <1>2, <1>9, <2>1
  <2> QED BY <1>1, <2>2, <2>3 DEF i0
<1>11. (i0 + 1) * E >= page + 1
  <2>1. (i0 + 1) * E = i0 * E + E
    BY <1>2
  <2> QED BY <1>1, <1>2, <2>1
<1>12. ASSUME NEW k \in 1..(i0 + 1), NEW j \in 0..(E - 1)
       PROVE  /\ (k - 1) * E < page + 1
              /\ tables'[k][j] = IF (k - 1) * E + j < page + 1
                                 THEN pte_create_kernel((k - 1) * E + j) ELSE NotMapped
  <2> DEFINE k0 == k - 1
  <2>1. k0 \in Nat /\ (k0 < i0 \/ k0 = i0) /\ (k0 = i0 <=> k = i0 + 1) /\ j \in Nat /\ j < E
    BY <1>2
  <2>2. k0 * E \in Int /\ (k0 < i0 => k0 * E + E <= i0 * E)
    BY <1>9, <2>1
  <2>3. ts[k][j] = IF k0 * E + j < page THEN pte_create_kernel(k0 * E + j) ELSE NotMapped
    BY <1>3 DEF E
  <2> HIDE DEF k0
  <2>4. k0 * E < page + 1
    BY <1>1, <1>2, <2>1, <2>2
  <2>5. CASE k0 = i0 /\ j = j0
    <3>1. k0 * E + j = page /\ k0 * E + j < page + 1
      BY <1>1, <1>2, <2>5
    <3>2. tables'[k][j] = pte_create_kernel(page)
      BY <1>8, <2>1, <2>5
    <3> QED BY <2>4, <3>1, <3>2 DEF k0
  <2>6. CASE ~(k0 = i0 /\ j = j0)
    <3>1. k0 * E + j < page <=> k0 * E + j < page + 1
      <4>1. CASE k0 = i0
        <5>1. j # j0 /\ k0 * E = i0 * E
          BY <2>6, <4>1
        <5> QED BY <1>1, <1>2, <2>1, <5>1
      <4>2. CASE k0 < i0
        <5>1. k0 * E + j < page
          BY <1>1, <1>2, <2>1, <2>2, <4>2
        <5> QED BY <1>1, <2>1, <2>2, <5>1
      <4> QED BY <2>1, <4>1, <4>2
    <3>2. tables'[k][j] = ts[k][j]
      BY <1>7, <1>8, <2>1, <2>6
    <3> QED BY <2>3, <2>4, <3>1, <3>2 DEF k0
  <2> QED BY <2>5, <2>6
<1>13. \A k \in 1..(i0 + 1) : (k - 1) * E < page + 1
  BY <1>2, <1>12
<1> QED BY <1>1, <1>7, <1>10, <1>11, <1>12, <1>13 DEF PagingInv, PageTable, E

\* Each step of paging_init keeps its invariant.
LEMMA PagingStep ==
  ASSUME PagingInv, PagingStart \/ MapPage \/ LoadPageDir
  PROVE  PagingInv'
<1> DEFINE E == ENTRIES
           i0 == pd_no(page)
<1>0. /\ page \in Nat /\ init_ram_pages \in Nat /\ pool \in Nat /\ page <= init_ram_pages
      /\ E \in Nat \ {0}
  BY PagingAssumption DEF PagingInv
<1>1. CASE PagingStart
  <2>1. paging = "idle" /\ page = 0 /\ tables = <<>>
        /\ UNCHANGED <<init_ram_pages, tables, page>>
    BY <1>1 DEF PagingStart, PagingInv
  <2>2. CASE pool = 0
    BY <1>0, <1>1, <2>1, <2>2 DEF PagingStart, PagingInv
  <2>3. CASE pool # 0
    <3>1. /\ pd' = [n \in 0..pd_no(init_ram_pages) |-> 0]
          /\ pool' = pool - 1 /\ paging' = "map"
      BY <1>1, <2>3 DEF PagingStart
    <3>2. ASSUME NEW k \in 0..pd_no(init_ram_pages)
          PROVE  pd'[k] = IF k * E < page' THEN k + 1 ELSE 0
      <4>1. pd_no(init_ram_pages) \in Nat
        BY <1>0, Places
      <4>2. k * E >= 0
        BY <1>0, <4>1
      <4>3. ~(k * E < page')
        <5> DEFINE z == k * E
        <5>1. z >= 0 /\ z \in Int /\ page' = 0
          BY <1>0, <2>1, <4>1, <4>2
        <5> HIDE DEF z
        <5>2. ~(z < page')
          BY <5>1
        <5> QED BY <5>2 DEF z
      <4>4. pd'[k] = 0
        BY <3>1
      <4> QED BY <4>3, <4>4
    <3>3. tables' = <<>> /\ Len(tables') = 0 /\ tables' \in Seq(PageTable)
          /\ Len(tables') * E >= page'
      <4>1. tables' = <<>> /\ Len(tables') = 0 /\ tables' \in Seq(PageTable)
        BY <2>1
      <4>2. 0 * E = 0 /\ page' = 0
        BY <1>0, <2>1
      <4> QED BY <4>1, <4>2
    <3>4. pool' \in Nat
      BY <1>0, <2>3, <3>1
    <3> QED BY <1>0, <2>1, <3>1, <3>2, <3>3, <3>4 DEF PagingInv, PageTable
  <2> QED BY <2>2, <2>3
<1>2. CASE MapPage
  <2>0. paging = "map" /\ page < init_ram_pages /\ init_ram_pages' = init_ram_pages
    BY <1>2 DEF MapPage
  <2>1. /\ tables \in Seq(PageTable)
        /\ \A k \in 1..Len(tables), j \in 0..(E - 1) :
               tables[k][j] = IF (k - 1) * E + j < page
                              THEN pte_create_kernel((k - 1) * E + j) ELSE NotMapped
        /\ \A k \in DOMAIN pd : pd[k] = IF k * E < page THEN k + 1 ELSE 0
    BY <2>0 DEF PagingInv, PageTable
  <2>2. /\ pd[i0] # 0 => Len(tables) = i0 + 1
        /\ pd[i0] = 0 => Len(tables) = i0 /\ page = i0 * E
        /\ i0 \in DOMAIN pd
    BY <2>0, TableCount
  <2>3. CASE pd[i0] # 0
    <3>1. write_pte(tables) /\ UNCHANGED <<pd, pool, paging>>
      BY <1>2, <2>3 DEF MapPage
    <3>2. pd[i0] = i0 + 1
      BY <2>1, <2>2, <2>3
    <3> QED BY <1>0, <2>0, <2>1, <2>2, <2>3, <3>1, <3>2, WritePte
  <2>4. CASE pd[i0] = 0 /\ pool > 0
    <3> DEFINE ts == Append(tables, NewTable)
    <3>1. /\ pd' = [pd EXCEPT ![i0] = Len(tables) + 1]
          /\ pool' = pool - 1 /\ write_pte(ts) /\ paging' = paging
      BY <1>2, <2>4 DEF MapPage
    <3>2. Len(tables) = i0 /\ page = i0 * E /\ i0 \in Nat
      BY <1>0, <2>2, <2>4, Places
    <3>3. /\ ts \in Seq(PageTable) /\ Len(ts) = i0 + 1
          /\ \A k \in 1..i0 : ts[k] = tables[k]
          /\ ts[i0 + 1] = NewTable
      <4>1. NewTable \in PageTable
        BY EntryTypes
      <4>2. /\ ts \in Seq(PageTable) /\ Len(ts) = Len(tables) + 1
            /\ \A k \in 1..Len(tables) : ts[k] = tables[k]
            /\ ts[Len(tables) + 1] = NewTable
        BY <2>1, <4>1, AppendProperties
      <4> QED BY <3>2, <4>2
    <3>4. ASSUME NEW k \in 1..Len(ts), NEW j \in 0..(E - 1)
          PROVE  ts[k][j] = IF (k - 1) * E + j < page
                            THEN pte_create_kernel((k - 1) * E + j) ELSE NotMapped
      <4>1. CASE k \in 1..i0
        BY <2>1, <3>2, <3>3, <4>1
      <4>2. CASE k = i0 + 1
        <5>1. (k - 1) * E = page
          BY <3>2, <4>2
        <5>2. ~((k - 1) * E + j < page)
          BY <1>0, <5>1
        <5>3. ts[k][j] = NotMapped
          BY <3>3, <4>2 DEF NewTable
        <5> QED BY <5>2, <5>3
      <4> QED BY <3>2, <3>3, <4>1, <4>2
    <3>5. pool' \in Nat
      BY <1>0, <2>4, <3>1
    <3>6. /\ DOMAIN pd' = DOMAIN pd
          /\ \A k \in DOMAIN pd : pd'[k] = IF k = i0 THEN k + 1 ELSE pd[k]
      BY <2>2, <3>1, <3>2
    <3> HIDE DEF ts, E, i0
    <3> QED BY <2>0, <3>1, <3>3, <3>4, <3>5, <3>6, WritePte DEF E, i0
  <2>5. CASE pd[i0] = 0 /\ ~(pool > 0)
    <3>1. paging' = "panic" /\ UNCHANGED <<pd, pool, tables, page>>
      BY <1>2, <2>5 DEF MapPage
    <3> QED BY <1>0, <2>0, <3>1 DEF PagingInv
  <2> QED BY <2>3, <2>4, <2>5
<1>3. CASE LoadPageDir
  BY <1>0, <1>3 DEF LoadPageDir, PagingInv
<1> QED BY <1>1, <1>2, <1>3

\* The invariant, when all pages are mapped, is RamMapped.
LEMMA PagingInvariant == PagingInv => RamMapped
<1> SUFFICES ASSUME PagingInv, paging = "done",
                    NEW i0 \in DOMAIN pd, NEW j \in DOMAIN NewTable
             PROVE  (IF pd[i0] = 0 THEN NotMapped ELSE tables[pd[i0]][j])
                    = IF i0 * ENTRIES + j < init_ram_pages
                      THEN pte_create_kernel(i0 * ENTRIES + j) ELSE NotMapped
  BY DEF RamMapped
<1>1. /\ page = init_ram_pages /\ page \in Nat
      /\ pd[i0] = IF i0 * ENTRIES < page THEN i0 + 1 ELSE 0
      /\ Len(tables) * ENTRIES >= page /\ Len(tables) \in Nat
      /\ \A k \in 1..Len(tables), m \in 0..(ENTRIES - 1) :
             tables[k][m] = IF (k - 1) * ENTRIES + m < page
                            THEN pte_create_kernel((k - 1) * ENTRIES + m) ELSE NotMapped
  BY LenProperties DEF PagingInv
<1>2. ENTRIES \in Nat \ {0} /\ j \in 0..(ENTRIES - 1)
  BY PagingAssumption DEF NewTable
<1>3. i0 \in Nat
  BY <1>1, Places DEF PagingInv
<1>4. i0 * ENTRIES \in Int /\ Len(tables) * ENTRIES \in Int
  BY <1>1, <1>2, <1>3, Multiples
<1>5. CASE i0 * ENTRIES < page
  <2>1. i0 * ENTRIES < Len(tables) * ENTRIES
    BY <1>1, <1>4, <1>5
  <2>2. i0 < Len(tables)
    BY <1>1, <1>2, <1>3, <2>1, Multiples
  <2>3. i0 + 1 \in 1..Len(tables) /\ (i0 + 1) - 1 = i0 /\ pd[i0] = i0 + 1 /\ pd[i0] # 0
    BY <1>1, <1>3, <1>5, <2>2
  <2> QED BY <1>1, <1>2, <2>3
<1>6. CASE ~(i0 * ENTRIES < page)
  <2>1. ~(i0 * ENTRIES + j < page)
    BY <1>1, <1>2, <1>4, <1>6
  <2> QED BY <1>1, <1>6, <2>1
<1> QED BY <1>5, <1>6

-----------------------------------------------------------------------------
(* The command line.                                                       *)

\* A line is a sequence of words, each of some length.
LEMMA LineFacts ==
  ASSUME line \in Line
  PROVE  /\ argc \in Nat /\ DOMAIN line = 1..argc /\ line \in Seq(Range(line))
         /\ \A n \in 1..argc : line[n] \in Range(line) /\ line[n].length \in Nat
         /\ LOADER_ARGS_LEN \in Nat
<1>1. line \in Seq(Range(line)) /\ LOADER_ARGS_LEN \in Nat
      /\ \A n \in DOMAIN line : line[n].length \in Nat
  BY LineAssumption
<1>2. argc \in Nat /\ DOMAIN line = 1..argc
  BY <1>1, LenProperties DEF argc
<1> QED BY <1>1, <1>2 DEF Range

\* strnlen is the length of the word, or the limit if that is less.
LEMMA StrnlenFacts ==
  ASSUME NEW word, word.length \in Nat, NEW limit \in Nat
  PROVE  /\ strnlen(word, limit) \in Nat /\ strnlen(word, limit) <= limit
         /\ strnlen(word, limit) = 0 => word.length = 0 \/ limit = 0
<1> DEFINE S == {word.length, limit}
<1>1. \E x \in S : \A y \in S : x <= y
  <2>1. CASE word.length <= limit
    BY <2>1
  <2>2. CASE ~(word.length <= limit)
    BY <2>2
  <2> QED BY <2>1, <2>2
<1>2. Min(S) \in S /\ \A y \in S : Min(S) <= y
  BY <1>1 DEF Min
<1> QED BY <1>2 DEF strnlen

\* Leading is the only number of options before the first word that is none.
LEMMA LeadingFacts ==
  ASSUME line \in Line
  PROVE  /\ Leading \in 0..argc
         /\ \A k \in 1..Leading : line[k].name \in Option
         /\ Leading < argc => line[Leading + 1].name \notin Option
         /\ \A n \in 0..argc :
                /\ \A k \in 1..n : line[k].name \in Option
                /\ n < argc => line[n + 1].name \notin Option
                => n = Leading
<1> DEFINE Stops(n) == n < argc => line[n + 1].name \notin Option
           AllOptions(n) == \A k \in 1..n : line[k].name \in Option
           T == {n \in Nat : n <= argc /\ Stops(n)}
<1>1. argc \in Nat
  BY LineFacts
<1>2. argc \in T
  BY <1>1
<1>3. PICK n \in T : \A m \in T : n <= m
  BY <1>2, LeastNat
<1>4. n \in 0..argc /\ Stops(n)
  BY <1>1
<1>5. ASSUME NEW k \in 1..n, line[k].name \notin Option
      PROVE  FALSE
  <2>1. k - 1 \in Nat /\ k - 1 <= argc /\ (k - 1) + 1 = k
    BY <1>1, <1>4
  <2>2. k - 1 \in T
    BY <1>5, <2>1
  <2> HIDE DEF T
  <2> QED BY <1>1, <1>3, <1>4, <2>2
<1>6. AllOptions(n)
  BY <1>5
<1>7. Leading \in 0..argc /\ AllOptions(Leading) /\ Stops(Leading)
  BY <1>4, <1>6 DEF Leading
<1>8. ASSUME NEW a \in 0..argc, NEW b \in 0..argc, a < b, Stops(a), AllOptions(b)
      PROVE  FALSE
  <2>1. a + 1 \in 1..b /\ a < argc
    BY <1>1, <1>8
  <2> QED BY <1>8, <2>1
<1>9. ASSUME NEW m \in 0..argc, AllOptions(m), Stops(m)
      PROVE  m = Leading
  <2> HIDE DEF AllOptions, Stops
  <2>1. m = Leading \/ m < Leading \/ Leading < m
    BY <1>1, <1>7
  <2> QED BY <1>7, <1>8, <1>9, <2>1
<1> QED BY <1>7, <1>9

\* The words after the options.
LEMMA ActionsFacts ==
  ASSUME line \in Line
  PROVE  /\ Actions \in Seq(Range(line)) /\ Len(Actions) = argc - Leading
         /\ Len(Actions) \in Nat
         /\ \A k \in 1..Len(Actions) : Actions[k] = line[Leading + k]
<1>1. argc \in Nat /\ Leading \in 0..argc /\ line \in Seq(Range(line)) /\ argc = Len(line)
  BY LineFacts, LeadingFacts DEF argc
<1>2. Leading + 1 \in 1..(argc + 1) /\ argc \in (Leading + 1) - 1..argc
      /\ argc - (Leading + 1) + 1 = argc - Leading
  BY <1>1
<1>3. Actions \in Seq(Range(line)) /\ Len(Actions) = argc - Leading
  BY <1>1, <1>2, SubSeqProperties DEF Actions
<1>4. ASSUME NEW k \in 1..(argc - Leading)
      PROVE  Actions[k] = line[Leading + k]
  <2>1. Actions[k] = line[(Leading + 1) + k - 1]
    BY <1>1, <1>2, SubSeqProperties DEF Actions
  <2>2. (Leading + 1) + k - 1 = Leading + k
    BY <1>1
  <2> QED BY <2>1, <2>2
<1> QED BY <1>1, <1>3, <1>4

\* Good is a number of pairs of words, all `run's, and the next is not one.
LEMMA GoodFacts ==
  ASSUME line \in Line
  PROVE  /\ Good \in Nat /\ 2 * Good <= Len(Actions) /\ Good <= Len(Actions) \div 2
         /\ \A k \in 1..Good : Actions[2 * k - 1].name = "run"
         /\ Good < Len(Actions) \div 2 => Actions[2 * Good + 1].name # "run"
<1> DEFINE h == Len(Actions) \div 2
           Stops(n) == n < h => Actions[2 * n + 1].name # "run"
           AllRuns(n) == \A k \in 1..n : Actions[2 * k - 1].name = "run"
           T == {n \in Nat : n <= h /\ Stops(n)}
<1>1. Len(Actions) \in Nat /\ h \in Nat /\ 2 * h <= Len(Actions)
  BY ActionsFacts
<1>2. h \in T
  BY <1>1
<1>3. PICK n \in T : \A m \in T : n <= m
  BY <1>2, LeastNat
<1>4. n \in 0..h /\ Stops(n)
  BY <1>1
<1> HIDE DEF h
<1>5. ASSUME NEW k \in 1..n, Actions[2 * k - 1].name # "run"
      PROVE  FALSE
  <2>1. k - 1 \in Nat /\ k - 1 <= h /\ 2 * (k - 1) + 1 = 2 * k - 1
    BY <1>1, <1>4
  <2>2. k - 1 \in T
    BY <1>5, <2>1
  <2> HIDE DEF T
  <2> QED BY <1>1, <1>3, <1>4, <2>2
<1>6. AllRuns(n)
  BY <1>5
<1>7. Good \in 0..h /\ AllRuns(Good) /\ Stops(Good)
  BY <1>4, <1>6 DEF Good, h
<1> QED BY <1>1, <1>7 DEF h

\* One more word read by parse_options.
LEMMA NamedStep ==
  ASSUME NEW n \in Nat, NEW names
  PROVE  /\ Named(n + 1, names) = Named(n, names) \union
                                  (IF line[n + 1].name \in names THEN {n + 1} ELSE {})
         /\ Named(n, names) \subseteq 1..n
<1>1. 1..(n + 1) = (1..n) \union {n + 1}
  OBVIOUS
<1> QED BY <1>1 DEF Named

\* The first and the last place, when one more is added at the end.
LEMMA FirstAndLast ==
  ASSUME NEW n \in Nat, NEW S \in SUBSET (1..n)
  PROVE  /\ Min(S \union {n + 1}) = IF S = {} THEN n + 1 ELSE Min(S)
         /\ Max(S \union {n + 1}) = n + 1
<1> DEFINE U == S \union {n + 1}
           First(W, x) == x \in W /\ \A y \in W : x <= y
<1>1. \A y \in S : y \in Nat /\ y <= n
  OBVIOUS
<1>2. Max(U) = n + 1
  <2>1. n + 1 \in U /\ \A y \in U : n + 1 >= y
    BY <1>1
  <2>2. \A x \in U : (\A y \in U : x >= y) => x = n + 1
    BY <1>1, <2>1
  <2> QED BY <2>1, <2>2 DEF Max
<1>3. \A W \in SUBSET Nat, x, z \in Nat : First(W, x) /\ First(W, z) => x = z
  OBVIOUS
<1>4. ASSUME NEW W \in SUBSET Nat, NEW x, First(W, x)
      PROVE  Min(W) = x
  <2>1. First(W, Min(W))
    BY <1>4 DEF Min
  <2> QED BY <1>3, <1>4, <2>1
<1>5. U \subseteq Nat /\ S \subseteq Nat
  BY <1>1
<1>6. CASE S = {}
  <2>1. First(U, n + 1)
    BY <1>6
  <2> QED BY <1>2, <1>4, <1>5, <1>6, <2>1
<1>7. CASE S # {}
  <2>1. PICK x \in S : \A y \in S : x <= y
    BY <1>5, <1>7, LeastNat
  <2>2. First(S, x) /\ First(U, x)
    BY <1>1, <2>1
  <2>3. Min(S) = x /\ Min(U) = x
    BY <1>4, <1>5, <2>2
  <2> QED BY <1>2, <1>7, <2>3
<1> QED BY <1>6, <1>7

-----------------------------------------------------------------------------
(* What a step leaves as it is.                                            *)

\* The line decides where its options end and what its actions are.
LEMMA LineStays ==
  ASSUME line' = line
  PROVE  argc' = argc /\ Leading' = Leading /\ Actions' = Actions /\ Range(line)' = Range(line)
<1>1. argc' = argc /\ Range(line)' = Range(line)
  BY DEF argc
<1>2. Leading' = Leading
  BY <1>1 DEF Leading
<1> QED BY <1>1, <1>2 DEF Actions

\* The options among the first words, after a step that leaves the line.
LEMMA NamedStays ==
  ASSUME line' = line, NEW n, i' = n, NEW names
  PROVE  Named(i, names)' = Named(n, names)
BY DEF Named

\* The same of all options.
LEMMA GivenStays ==
  ASSUME line' = line, NEW names
  PROVE  Given(names)' = Given(names)
BY LineStays DEF Given, Named

\* The way to shut down depends on nothing but the line and the places.
LEMMA HowStays ==
  ASSUME line' = line, NEW n, i' = n, NEW names
  PROVE  /\ LastHow(Named(i, names))' = LastHow(Named(n, names))
         /\ LastHow(Given(names))' = LastHow(Given(names))
BY NamedStays, GivenStays DEF LastHow

\* Steps after parse_options leave the settings alone.
LEMMA HonouredStays ==
  ASSUME OptionsHonoured, phase \in {"paging", "calibrate", "actions"},
         UNCHANGED <<line, thread_mlfqs, lists, seed, how>>
  PROVE  OptionsHonoured'
<1>1. \A names : Given(names)' = Given(names)
  BY GivenStays
<1>2. \A names : LastHow(Given(names))' = LastHow(Given(names))
  BY HowStays
<1> QED BY <1>1, <1>2 DEF OptionsHonoured

\* A step of main() outside paging_init and timer_calibrate.
LEMMA SetUpStays ==
  /\ PagingInv /\ UNCHANGED pagingVars => PagingInv'
  /\ CalInv /\ UNCHANGED calVars => CalInv'
<1>1. ASSUME PagingInv, UNCHANGED pagingVars
      PROVE  PagingInv'
  BY <1>1 DEF PagingInv, pagingVars
<1>2. ASSUME CalInv, UNCHANGED calVars
      PROVE  CalInv'
  BY <1>2 DEF CalInv, calVars
<1> QED BY <1>1, <1>2

-----------------------------------------------------------------------------
(* The steps of main().                                                    *)

\* main() begins with nothing read.
LEMMA Initially == Init => BootInv
<1> SUFFICES ASSUME Init
             PROVE  BootInv
  OBVIOUS
<1>1. line \in Line /\ argc \in Nat /\ LOADER_ARGS_LEN \in Nat /\ Len(line) = argc
  BY LineFacts DEF Init, argc
<1>2. TypeOK
  <2>1. /\ phase = "bss" /\ outcome = "ok" /\ search = "idle" /\ paging = "idle"
        /\ how \in {None, "power_off", "reboot"} /\ p \in Nat /\ i \in 0..argc
    BY <1>1 DEF Init, CalInit, PagingInit
  <2>2. {thread_mlfqs, lists} \subseteq BOOLEAN
    BY Zenon DEF Init
  <2> QED BY <2>1, <2>2 DEF TypeOK
<1>3. ReadInv
  BY <1>1 DEF Init, ReadInv
<1>4. ParseInv /\ OptionsHonoured /\ ActionInv
  BY DEF Init, ParseInv, OptionsHonoured, ActionInv, In
<1>5. PagingInv
  BY PagingAssumption DEF Init, PagingInit, PagingInv
<1>6. CalInv
  BY CalibrationAssumption DEF Init, CalInit, CalInv
<1>7. ran \in Seq(Range(line))
  BY DEF Init
<1> QED BY <1>1, <1>2, <1>3, <1>4, <1>5, <1>6, <1>7 DEF BootInv

\* bss_init and read_command_line: what is read next is the next word of the
\* line, and it takes two bytes of the loader's space unless it is empty.
LEMMA ReadStep ==
  ASSUME BootInv, BssInit \/ ReadWord \/ ReadDone
  PROVE  BootInv'
<1>0. /\ line' = line /\ ran' = ran /\ line \in Line /\ UNCHANGED pagingVars /\ UNCHANGED calVars
      /\ lists' = lists /\ phase \in {"bss", "read"} /\ outcome = "ok" /\ ran = <<>>
  BY DEF BootInv, BssInit, ReadWord, ReadDone, ActionInv, In
<1>1. /\ argc' = argc /\ Range(line)' = Range(line) /\ argc \in Nat /\ LOADER_ARGS_LEN \in Nat
      /\ argc = Len(line) /\ LOADER_ARGS_LEN % 2 = 0
  BY <1>0, LineFacts, LineAssumption, LineStays DEF argc
<1>2. PagingInv' /\ CalInv'
  BY <1>0, SetUpStays DEF BootInv
<1>3. p \in Nat /\ i \in 0..argc /\ i \in Nat
  BY <1>1 DEF BootInv, TypeOK
<1>4. CASE BssInit
  <2>1. TypeOK'
    BY <1>0, <1>1, <1>4 DEF BootInv, TypeOK, BssInit, calVars, pagingVars
  <2>2. ReadInv'
    BY <1>0, <1>1, <1>4 DEF BootInv, ReadInv, BssInit
  <2>3. ParseInv' /\ OptionsHonoured' /\ ActionInv'
    BY <1>0, <1>4 DEF BssInit, ParseInv, OptionsHonoured, ActionInv, In
  <2> QED BY <1>0, <1>1, <1>2, <2>1, <2>2, <2>3 DEF BootInv
<1>5. CASE ReadWord
  <2>0. /\ i < argc /\ phase' = phase /\ phase = "read"
        /\ UNCHANGED <<thread_mlfqs, seed, how>>
    BY <1>5 DEF ReadWord, In
  <2>1. ParseInv' /\ OptionsHonoured' /\ ActionInv'
    BY <1>0, <2>0 DEF ParseInv, OptionsHonoured, ActionInv, In
  <2>2. CASE at_end \/ past_argv
    <3>1. /\ p' = p /\ i' = i /\ outcome' \in {"panic", "overrun"}
          /\ outcome' = "overrun" => past_argv
      BY <1>5, <2>2 DEF ReadWord, Panic
    <3>2. TypeOK'
      BY <1>0, <1>1, <2>0, <3>1 DEF BootInv, TypeOK, calVars, pagingVars
    <3>3. ReadInv'
      BY <1>0, <1>1, <2>0, <3>1 DEF BootInv, ReadInv, past_argv
    <3> QED BY <1>0, <1>1, <1>2, <2>1, <3>2, <3>3 DEF BootInv
  <2>3. CASE ~at_end /\ ~past_argv
    <3> DEFINE len == strnlen(argv(i), LOADER_ARGS_LEN - p)
    <3>1. p' = p + len + 1 /\ i' = i + 1 /\ outcome' = outcome /\ p < LOADER_ARGS_LEN
      BY <1>1, <1>3, <1>5, <2>3 DEF ReadWord, at_end
    <3>2. /\ i + 1 \in 1..argc /\ argv(i) = line[i + 1] /\ argv(i).length \in Nat
          /\ LOADER_ARGS_LEN - p \in Nat \ {0}
      BY <1>0, <1>1, <1>3, <2>0, <3>1, LineFacts DEF argv
    <3>3. /\ len \in Nat /\ len <= LOADER_ARGS_LEN - p
          /\ len = 0 => line[i + 1].length = 0
      BY <3>2, StrnlenFacts
    <3> HIDE DEF len
    <3>4. TypeOK'
      BY <1>0, <1>1, <1>3, <2>0, <3>1, <3>2, <3>3 DEF BootInv, TypeOK, calVars, pagingVars
    <3>5. 2 * i' <= p' \/ \E k \in 1..i' : line[k].length = 0
      <4>1. 2 * i <= p \/ \E k \in 1..i : line[k].length = 0
        BY <2>0 DEF BootInv, ReadInv
      <4>2. CASE \E k \in 1..i : line[k].length = 0
        BY <1>3, <3>1, <4>2
      <4>3. CASE 2 * i <= p /\ len = 0
        BY <1>3, <3>1, <3>3, <4>3, i + 1 \in 1..(i + 1)
      <4>4. CASE 2 * i <= p /\ len # 0
        BY <1>3, <3>1, <3>3, <4>4
      <4> QED BY <4>1, <4>2, <4>3, <4>4
    <3>6. ReadInv'
      <4>1. p' <= LOADER_ARGS_LEN + 1
        BY <1>1, <1>3, <3>1, <3>3
      <4>2. thread_mlfqs' = FALSE /\ seed' = None /\ how' = None
        BY <2>0 DEF BootInv, ReadInv
      <4> QED BY <1>0, <2>0, <3>1, <3>5, <4>1, <4>2 DEF ReadInv
    <3> QED BY <1>0, <1>1, <1>2, <2>1, <3>4, <3>6 DEF BootInv
  <2> QED BY <2>2, <2>3
<1>6. CASE ReadDone /\ past_argv
  <2>0. /\ outcome' = "overrun" /\ phase' = phase /\ phase = "read"
        /\ UNCHANGED <<p, i, thread_mlfqs, seed, how>>
    BY <1>6 DEF ReadDone, In
  <2>1. TypeOK'
    BY <1>0, <1>1, <2>0 DEF BootInv, TypeOK, calVars, pagingVars
  <2>2. ReadInv'
    BY <1>0, <1>1, <1>6, <2>0 DEF BootInv, ReadInv, past_argv
  <2>3. ParseInv' /\ OptionsHonoured' /\ ActionInv'
    BY <1>0, <2>0 DEF ParseInv, OptionsHonoured, ActionInv, In
  <2> QED BY <1>0, <1>1, <1>2, <2>1, <2>2, <2>3 DEF BootInv
<1>7. CASE ReadDone /\ ~past_argv
  <2>0. /\ phase' = "parse" /\ i' = 0 /\ outcome' = outcome /\ phase = "read"
        /\ UNCHANGED <<p, thread_mlfqs, seed, how>>
    BY <1>7 DEF ReadDone, In
  <2>1. TypeOK'
    BY <1>0, <1>1, <2>0 DEF BootInv, TypeOK, calVars, pagingVars
  <2>2. ParseInv'
    <3>1. thread_mlfqs' = FALSE /\ seed' = None /\ how' = None
      BY <2>0 DEF BootInv, ReadInv
    <3>2. \A names : Named(i, names)' = Named(0, names)
      BY <1>0, <2>0, NamedStays
    <3>3. \A names : Named(0, names) = {} /\ LastHow(Named(i, names))' = None
      <4>1. 1..0 = {}
        OBVIOUS
      <4>2. \A names : Named(0, names) = {}
        BY <4>1 DEF Named
      <4>3. \A names : LastHow(Named(i, names))' = LastHow(Named(0, names))
        BY <1>0, <2>0, HowStays
      <4> QED BY <4>2, <4>3 DEF LastHow
    <3>4. \A k \in 1..i' : FALSE
      BY <2>0
    <3> QED BY <3>1, <3>2, <3>3, <3>4 DEF ParseInv
  <2>3. ReadInv' /\ OptionsHonoured' /\ ActionInv'
    BY <1>0, <2>0 DEF ReadInv, OptionsHonoured, ActionInv
  <2> QED BY <1>0, <1>1, <1>2, <2>1, <2>2, <2>3 DEF BootInv
<1> QED BY <1>4, <1>5, <1>6, <1>7

\* parse_options takes one option: what is left to show is that the settings
\* are those that it and the options before it ask for.
LEMMA OptionStep ==
  ASSUME BootInv, NEW names, names \subseteq Option, AtOption(names),
         thread_mlfqs' \in BOOLEAN, how' \in {None, "power_off", "reboot"},
         outcome' \in {"ok", "panic", "power_off"},
         outcome' = "ok" =>
             /\ thread_mlfqs' <=> Named(i + 1, {"-mlfqs"}) # {}
             /\ \A k \in Named(i + 1, {"-rs"}) : line[k].value # None
             /\ seed' = IF Named(i + 1, {"-rs"}) = {} THEN None
                        ELSE line[Min(Named(i + 1, {"-rs"}))].value
             /\ how' = LastHow(Named(i + 1, {"-q", "-r"}))
  PROVE  BootInv'
<1>0. /\ line' = line /\ ran' = ran /\ line \in Line /\ UNCHANGED pagingVars /\ UNCHANGED calVars
      /\ UNCHANGED <<phase, p, lists>> /\ phase = "parse" /\ outcome = "ok" /\ ran = <<>>
      /\ i < argc /\ i' = i + 1 /\ argv(i).name \in Option
  BY DEF BootInv, AtOption, ActionInv, In
<1>1. /\ argc' = argc /\ Range(line)' = Range(line) /\ argc \in Nat
  BY <1>0, LineFacts, LineStays
<1>2. PagingInv' /\ CalInv'
  BY <1>0, SetUpStays DEF BootInv
<1>3. i \in 0..argc /\ i \in Nat
  BY <1>1 DEF BootInv, TypeOK
<1>4. TypeOK'
  <2>1. {thread_mlfqs, lists}' \subseteq BOOLEAN
    BY <1>0 DEF BootInv, TypeOK
  <2>2. i' \in 0..argc'
    BY <1>0, <1>1, <1>3
  <2> QED BY <1>0, <1>1, <2>1, <2>2 DEF BootInv, TypeOK, calVars, pagingVars
<1>5. ReadInv' /\ OptionsHonoured' /\ ActionInv'
  BY <1>0 DEF ReadInv, OptionsHonoured, ActionInv
<1>6. ParseInv'
  <2> SUFFICES ASSUME outcome' = "ok"
               PROVE  ParseInv'
    BY DEF ParseInv, In
  <2>1. PICK n \in Nat : n = i + 1
    BY <1>3
  <2>2. i' = n
    BY <1>0, <2>1
  <2>3. \A S : Named(i, S)' = Named(n, S)
    BY <1>0, <2>2, NamedStays
  <2>4. \A S : LastHow(Named(i, S))' = LastHow(Named(n, S))
    BY <1>0, <2>2, HowStays
  <2>5. ASSUME NEW k \in 1..n
        PROVE  line'[k].name \in Option
    <3>1. \A m \in 1..i : line[m].name \in Option
      BY <1>0 DEF BootInv, ParseInv, In
    <3>2. k \in 1..i \/ k = i + 1
      BY <1>3, <2>1
    <3> QED BY <1>0, <3>1, <3>2 DEF argv
  <2>6. /\ thread_mlfqs' <=> Named(n, {"-mlfqs"}) # {}
        /\ \A k \in Named(n, {"-rs"}) : line[k].value # None
        /\ seed' = IF Named(n, {"-rs"}) = {} THEN None
                   ELSE line[Min(Named(n, {"-rs"}))].value
        /\ how' = LastHow(Named(n, {"-q", "-r"}))
    BY <2>1
  <2> QED BY <1>0, <2>2, <2>3, <2>4, <2>5, <2>6 DEF ParseInv
<1> QED BY <1>0, <1>1, <1>2, <1>4, <1>5, <1>6 DEF BootInv

\* The options that parse_options knows, and the others.
LEMMA ParseStep ==
  ASSUME BootInv, OptionHelp \/ OptionShutdown \/ OptionSeed \/ OptionMlfqs \/ OptionUnknown
  PROVE  BootInv'
<1> DEFINE w == argv(i)
           M == Named(i, {"-mlfqs"})
           R == Named(i, {"-rs"})
           Q == Named(i, {"-q", "-r"})
<1>0. In("parse")
  BY DEF OptionHelp, OptionShutdown, OptionSeed, OptionMlfqs, OptionUnknown, AtOption
<1>1. i \in Nat /\ thread_mlfqs \in BOOLEAN /\ how \in {None, "power_off", "reboot"}
  BY LineFacts DEF BootInv, TypeOK
<1>2. /\ thread_mlfqs <=> M # {}
      /\ \A k \in R : line[k].value # None
      /\ seed = IF R = {} THEN None ELSE line[Min(R)].value
      /\ how = LastHow(Q)
  BY <1>0 DEF BootInv, ParseInv
<1>3. w = line[i + 1]
  BY DEF argv
<1>4. /\ M \subseteq 1..i /\ R \subseteq 1..i /\ Q \subseteq 1..i
      /\ Named(i + 1, {"-mlfqs"}) = M \union (IF w.name = "-mlfqs" THEN {i + 1} ELSE {})
      /\ Named(i + 1, {"-rs"}) = R \union (IF w.name = "-rs" THEN {i + 1} ELSE {})
      /\ Named(i + 1, {"-q", "-r"}) = Q \union (IF w.name \in {"-q", "-r"} THEN {i + 1} ELSE {})
  BY <1>1, <1>3, NamedStep
<1>5. /\ Min(R \union {i + 1}) = IF R = {} THEN i + 1 ELSE Min(R)
      /\ Max(Q \union {i + 1}) = i + 1
  BY <1>1, <1>4, FirstAndLast
<1> HIDE DEF w, M, R, Q
<1>6. CASE OptionHelp
  <2>1. AtOption({"-h"}) /\ outcome' = "power_off" /\ thread_mlfqs' = thread_mlfqs /\ how' = how
    BY <1>6 DEF OptionHelp
  <2>2. {"-h"} \subseteq Option
    BY OptionAssumption
  <2> QED BY <1>1, <2>1, <2>2, OptionStep
<1>7. CASE OptionShutdown
  <2>1. /\ AtOption({"-q", "-r"}) /\ outcome' = outcome /\ UNCHANGED <<thread_mlfqs, seed>>
        /\ how' = IF w.name = "-q" THEN "power_off" ELSE "reboot"
        /\ w.name \in {"-q", "-r"}
    BY <1>7 DEF OptionShutdown, AtOption, w
  <2>2. {"-q", "-r"} \subseteq Option /\ outcome = "ok"
    BY <1>0, OptionAssumption DEF In
  <2>3. /\ Named(i + 1, {"-mlfqs"}) = M /\ Named(i + 1, {"-rs"}) = R
        /\ Named(i + 1, {"-q", "-r"}) = Q \union {i + 1}
    BY <1>4, <2>1
  <2>4. how' = LastHow(Named(i + 1, {"-q", "-r"}))
    BY <1>3, <1>5, <2>1, <2>3 DEF LastHow
  <2>5. how' \in {None, "power_off", "reboot"}
    BY <2>1
  <2> QED BY <1>1, <1>2, <2>1, <2>2, <2>3, <2>4, <2>5, OptionStep
<1>8. CASE OptionSeed
  <2>1. /\ AtOption({"-rs"}) /\ UNCHANGED <<thread_mlfqs, how>>
        /\ w.name = "-rs"
        /\ \/ outcome' = "panic"
           \/ /\ w.value # None /\ outcome' = outcome
              /\ seed' = IF seed = None THEN w.value ELSE seed
    BY <1>8 DEF OptionSeed, AtOption, w, Panic, random_init
  <2>2. {"-rs"} \subseteq Option /\ outcome = "ok"
    BY <1>0, OptionAssumption DEF In
  <2>3. /\ Named(i + 1, {"-mlfqs"}) = M /\ Named(i + 1, {"-q", "-r"}) = Q
        /\ Named(i + 1, {"-rs"}) = R \union {i + 1} /\ R \union {i + 1} # {}
    BY <1>4, <2>1
  <2>4. CASE outcome' = "panic"
    BY <1>1, <2>1, <2>2, <2>4, OptionStep
  <2>5. CASE /\ w.value # None /\ outcome' = outcome
             /\ seed' = IF seed = None THEN w.value ELSE seed
    <3>1. \A k \in Named(i + 1, {"-rs"}) : line[k].value # None
      BY <1>2, <1>3, <2>3, <2>5
    <3>2. R # {} => Min(R) \in R
      <4>1. ASSUME R # {}
            PROVE  Min(R) \in R
        <5>1. PICK k \in R : \A m \in R : k <= m
          BY <1>4, <4>1, LeastNat
        <5> QED BY <5>1 DEF Min
      <4> QED BY <4>1
    <3>3. seed' = line[Min(Named(i + 1, {"-rs"}))].value
      <4>1. CASE R = {}
        BY <1>2, <1>3, <1>5, <2>3, <2>5, <4>1
      <4>2. CASE R # {}
        <5>1. seed # None /\ seed = line[Min(R)].value
          BY <1>2, <3>2, <4>2
        <5> QED BY <1>5, <2>3, <2>5, <4>2, <5>1
      <4> QED BY <4>1, <4>2
    <3> QED BY <1>1, <1>2, <2>1, <2>2, <2>3, <2>5, <3>1, <3>3, OptionStep
  <2> QED BY <2>1, <2>4, <2>5
<1>9. CASE OptionMlfqs
  <2>1. /\ AtOption({"-mlfqs"}) /\ outcome' = outcome /\ UNCHANGED <<seed, how>>
        /\ thread_mlfqs' = TRUE /\ w.name = "-mlfqs"
    BY <1>9 DEF OptionMlfqs, AtOption, w
  <2>2. {"-mlfqs"} \subseteq Option /\ outcome = "ok"
    BY <1>0, OptionAssumption DEF In
  <2>3. /\ Named(i + 1, {"-mlfqs"}) # {} /\ Named(i + 1, {"-rs"}) = R
        /\ Named(i + 1, {"-q", "-r"}) = Q
    BY <1>4, <2>1
  <2> QED BY <1>1, <1>2, <2>1, <2>2, <2>3, OptionStep
<1>10. CASE OptionUnknown
  <2>1. /\ AtOption(Option \ {"-h", "-q", "-r", "-rs", "-mlfqs"}) /\ outcome' = "panic"
        /\ UNCHANGED <<thread_mlfqs, how>>
    BY <1>10 DEF OptionUnknown, Panic
  <2>2. (Option \ {"-h", "-q", "-r", "-rs", "-mlfqs"}) \subseteq Option
    OBVIOUS
  <2> QED BY <1>1, <2>1, <2>2, OptionStep
<1> QED BY <1>6, <1>7, <1>8, <1>9, <1>10

\* The end of parse_options: argv is at the first word that is no option.
LEMMA OptionsDoneStep ==
  ASSUME BootInv, OptionsDone
  PROVE  BootInv'
<1>0. /\ line' = line /\ ran' = ran /\ line \in Line /\ UNCHANGED calVars
      /\ UNCHANGED <<p, i, thread_mlfqs, how>> /\ phase = "parse" /\ outcome = "ok"
      /\ phase' = "paging" /\ lists' = thread_mlfqs /\ ran = <<>>
      /\ seed' = IF seed = None THEN "time" ELSE seed
      /\ (i < argc => argv(i).name \notin Option) /\ PagingStart
  BY DEF BootInv, OptionsDone, ActionInv, In, seed_from_time, random_init
<1>1. /\ argc' = argc /\ Range(line)' = Range(line) /\ argc \in Nat
      /\ Leading' = Leading
  BY <1>0, LineFacts, LineStays
<1>2. PagingInv' /\ CalInv'
  BY <1>0, SetUpStays, PagingStep DEF BootInv
<1>3. i \in 0..argc /\ i \in Nat
  BY <1>1 DEF BootInv, TypeOK
<1>4. TypeOK'
  <2>1. outcome' \in {"ok", "panic"} /\ search' = search
    BY <1>0 DEF OptionsDone, calVars
  <2>2. paging' \in {"idle", "map", "done", "panic"}
    BY <1>2 DEF PagingInv
  <2>3. {thread_mlfqs, lists}' \subseteq BOOLEAN
    BY <1>0 DEF BootInv, TypeOK
  <2> QED BY <1>0, <1>1, <2>1, <2>2, <2>3 DEF BootInv, TypeOK
<1>5. /\ \A k \in 1..i : line[k].name \in Option
      /\ thread_mlfqs <=> Named(i, {"-mlfqs"}) # {}
      /\ \A k \in Named(i, {"-rs"}) : line[k].value # None
      /\ seed = IF Named(i, {"-rs"}) = {} THEN None ELSE line[Min(Named(i, {"-rs"}))].value
      /\ how = LastHow(Named(i, {"-q", "-r"}))
  BY <1>0 DEF BootInv, ParseInv, In
<1>6. i = Leading
  BY <1>0, <1>3, <1>5, LeadingFacts DEF argv
<1>7. \A names : Given(names) = Named(i, names)
  BY <1>6 DEF Given
<1>8. seed' = IF Given({"-rs"}) = {} THEN "time" ELSE line[Min(Given({"-rs"}))].value
  <2> DEFINE R == Named(i, {"-rs"})
  <2>1. R \subseteq Nat
    BY <1>3, NamedStep
  <2> HIDE DEF R
  <2>2. ASSUME R # {}
        PROVE  Min(R) \in R
    <3>1. PICK k \in R : \A m \in R : k <= m
      BY <2>1, <2>2, LeastNat
    <3> QED BY <3>1 DEF Min
  <2>3. CASE R = {}
    BY <1>0, <1>5, <1>7, <2>3 DEF R
  <2>4. CASE R # {}
    <3>1. seed # None /\ seed = line[Min(R)].value
      BY <1>5, <2>2, <2>4 DEF R
    <3> QED BY <1>0, <1>7, <2>4, <3>1 DEF R
  <2> QED BY <2>3, <2>4
<1>9. OptionsHonoured'
  <2>1. \A names : Given(names)' = Given(names)
    BY <1>0, GivenStays
  <2>2. \A names : LastHow(Given(names))' = LastHow(Given(names))
    BY <1>0, HowStays
  <2> QED BY <1>0, <1>5, <1>7, <1>8, <2>1, <2>2 DEF OptionsHonoured
<1>10. ReadInv' /\ ParseInv' /\ ActionInv'
  <2>1. outcome' \in {"ok", "panic"}
    BY DEF OptionsDone
  <2> QED BY <1>0, <1>1, <1>6, <2>1 DEF ReadInv, ParseInv, ActionInv, In
<1> QED BY <1>0, <1>1, <1>2, <1>4, <1>9, <1>10 DEF BootInv

\* paging_init and timer_calibrate leave the command line and what it has set.
LEMMA SetUpStep ==
  ASSUME BootInv, SetUpPage \/ SetUpPaging \/ SetUpTimer
  PROVE  BootInv'
<1>0. /\ UNCHANGED <<line, p, i, thread_mlfqs, seed, how, lists, ran>>
      /\ line \in Line /\ phase \in {"paging", "calibrate"} /\ ran = <<>>
      /\ phase' \in {"paging", "calibrate", "actions"} /\ outcome' \in {"ok", "panic"}
      /\ i = Leading
  BY DEF BootInv, SetUpPage, SetUpPaging, SetUpTimer, In, ActionInv
<1>1. /\ argc' = argc /\ Range(line)' = Range(line) /\ argc \in Nat /\ Leading' = Leading
      /\ Leading \in 0..argc
  BY <1>0, LineFacts, LineStays, LeadingFacts
<1>2. PagingInv'
  <2>1. PagingStart \/ MapPage \/ LoadPageDir \/ UNCHANGED pagingVars
    BY DEF SetUpPage, SetUpPaging, SetUpTimer
  <2> QED BY <2>1, SetUpStays, PagingStep DEF BootInv
<1>3. CalInv'
  <2>1. CalibrateStart \/ Calibrate \/ UNCHANGED calVars
    BY DEF SetUpPage, SetUpPaging, SetUpTimer
  <2> QED BY <2>1, SetUpStays, CalibrationStep DEF BootInv
<1>4. TypeOK'
  <2>1. /\ paging' \in {"idle", "map", "done", "panic"}
        /\ search' \in {"idle", "double", "refine", "done", "panic"}
    BY <1>2, <1>3 DEF PagingInv, CalInv
  <2> QED BY <1>0, <1>1, <2>1 DEF BootInv, TypeOK
<1>5. OptionsHonoured'
  BY <1>0, HonouredStays DEF BootInv
<1>6. ReadInv' /\ ParseInv'
  BY <1>0 DEF ReadInv, ParseInv, In
<1>7. ActionInv'
  <2>1. Len(ran') = 0 /\ i' = Leading' /\ i' = Leading' + 2 * Len(ran') /\ ran' = <<>>
    BY <1>0, <1>1
  <2> QED BY <1>0, <2>1 DEF ActionInv
<1> QED BY <1>0, <1>1, <1>2, <1>3, <1>4, <1>5, <1>6, <1>7 DEF BootInv

\* run_actions, which takes two words at a time, and shutdown().
LEMMA RunStep ==
  ASSUME BootInv, RunAction \/ Shutdown
  PROVE  BootInv'
<1>0. /\ UNCHANGED <<line, phase, p, thread_mlfqs, seed, how, lists>>
      /\ line \in Line /\ phase = "actions" /\ outcome = "ok"
      /\ UNCHANGED calVars /\ UNCHANGED pagingVars
  BY DEF BootInv, RunAction, Shutdown, In
<1>1. /\ argc' = argc /\ Range(line)' = Range(line) /\ argc \in Nat /\ Leading' = Leading
      /\ Leading \in 0..argc /\ Actions' = Actions
  BY <1>0, LineFacts, LineStays, LeadingFacts
<1>2. PagingInv' /\ CalInv'
  BY <1>0, SetUpStays DEF BootInv
<1>3. OptionsHonoured'
  BY <1>0, HonouredStays DEF BootInv
<1>4. ReadInv' /\ ParseInv'
  <2>1. outcome' # "overrun"
    BY <1>0 DEF RunAction, Shutdown, run_task, Panic, BootInv, TypeOK
  <2> QED BY <1>0, <2>1 DEF ReadInv, ParseInv, In
<1>5. /\ i \in 0..argc /\ ran \in Seq(Range(line)) /\ Len(ran) \in Nat
      /\ i = Leading + 2 * Len(ran)
      /\ \A k \in 1..Len(ran) : ran[k] = Actions[2 * k] /\ Actions[2 * k - 1].name = "run"
      /\ how \in {None, "power_off", "reboot"}
  BY <1>0, LenProperties DEF BootInv, TypeOK, ActionInv
<1>6. ASSUME i' \in 0..argc, outcome' \in {"ok", "panic", "power_off", "reboot", "exited"}
      PROVE  TypeOK'
  BY <1>0, <1>1, <1>6 DEF BootInv, TypeOK, calVars, pagingVars
<1>7. CASE UNCHANGED <<ran, i>> /\ (outcome' = "panic" \/ Shutdown)
  <2>1. /\ outcome' \in {"ok", "panic", "power_off", "reboot", "exited"}
        /\ outcome' \notin {"ok", "panic"} => i = argc
    BY <1>5, <1>7 DEF Shutdown
  <2>2. TypeOK'
    BY <1>5, <1>6, <1>7, <2>1
  <2>3. ActionInv'
    BY <1>0, <1>1, <1>5, <1>7, <2>1 DEF ActionInv
  <2> QED BY <1>0, <1>1, <1>2, <1>3, <1>4, <1>5, <1>7, <2>2, <2>3 DEF BootInv
<1>8. CASE /\ i < argc /\ argv(i).name = "run" /\ i + 1 # argc
           /\ run_task(argv(i + 1)) /\ i' = i + 2
  <2> DEFINE n == Len(ran)
  <2>1. /\ i + 1 \in 1..argc /\ i + 2 \in 1..argc /\ i + 2 \in 0..argc
    BY <1>1, <1>5, <1>8
  <2>2. /\ ran' = Append(ran, line[i + 2]) /\ outcome' \in {"ok", "panic"}
        /\ line[i + 1].name = "run" /\ line[i + 2] \in Range(line)
    <3>1. (i + 1) + 1 = i + 2
      BY <1>1, <1>5
    <3> QED BY <1>0, <1>8, <2>1, <3>1, LineFacts DEF run_task, argv
  <2>3. /\ ran' \in Seq(Range(line)) /\ Len(ran') = n + 1
        /\ \A k \in 1..n : ran'[k] = ran[k]
        /\ ran'[n + 1] = line[i + 2]
    BY <1>5, <2>2, AppendProperties
  <2>4. TypeOK'
    BY <1>6, <1>8, <2>1, <2>2
  <2>5. /\ 2 * (n + 1) \in 1..Len(Actions) /\ 2 * (n + 1) - 1 \in 1..Len(Actions)
        /\ Leading + 2 * (n + 1) = i + 2 /\ Leading + (2 * (n + 1) - 1) = i + 1
    <3>1. Len(Actions) = argc - Leading
      BY <1>0, ActionsFacts
    <3> QED BY <1>1, <1>5, <2>1, <3>1
  <2>6. Actions[2 * (n + 1)] = line[i + 2] /\ Actions[2 * (n + 1) - 1] = line[i + 1]
    BY <1>0, <2>5, ActionsFacts
  <2> HIDE DEF n
  <2>7. ASSUME NEW k \in 1..(n + 1)
        PROVE  ran'[k] = Actions[2 * k] /\ Actions[2 * k - 1].name = "run"
    <3>1. k \in 1..n \/ k = n + 1
      BY <1>5 DEF n
    <3>2. CASE k \in 1..n
      BY <1>5, <2>3, <3>2 DEF n
    <3>3. CASE k = n + 1
      BY <2>2, <2>3, <2>6, <3>3
    <3> QED BY <3>1, <3>2, <3>3
  <2>8. ActionInv'
    <3>1. i' = Leading' + 2 * Len(ran')
      BY <1>1, <1>5, <1>8, <2>3, <2>5
    <3> QED BY <1>0, <1>1, <2>2, <2>3, <2>7, <3>1 DEF ActionInv
  <2> QED BY <1>0, <1>1, <1>2, <1>3, <1>4, <2>3, <2>4, <2>8 DEF BootInv
<1>9. \/ UNCHANGED <<ran, i>> /\ (outcome' = "panic" \/ Shutdown)
      \/ /\ i < argc /\ argv(i).name = "run" /\ i + 1 # argc
         /\ run_task(argv(i + 1)) /\ i' = i + 2
  BY DEF RunAction, Shutdown, Panic
<1> QED BY <1>7, <1>8, <1>9

\* As long as no word is empty, the words read fit in half as many entries as
\* there are bytes, which is ArgvFits.
LEMMA ReadInvariant == BootInv => ArgvFits
<1> SUFFICES ASSUME BootInv, outcome = "overrun", ~\E k \in 1..i : line[k].length = 0
             PROVE  FALSE
  BY DEF ArgvFits
<1>1. /\ i \in Nat /\ p \in Nat /\ LOADER_ARGS_LEN \in Nat /\ LOADER_ARGS_LEN % 2 = 0
      /\ 2 * i <= p /\ p <= LOADER_ARGS_LEN + 1 /\ i > LOADER_ARGS_LEN \div 2
  BY LineFacts, LineAssumption DEF BootInv, TypeOK, ReadInv, past_argv
<1> QED BY <1>1

\* The tasks run are those of the line, which is RunsTheLine.
LEMMA ActionInvariant == BootInv => RunsTheLine
<1> SUFFICES ASSUME BootInv
             PROVE  RunsTheLine
  OBVIOUS
<1> DEFINE n == Len(ran)
           S == Range(line)
<1>1. line \in Line /\ ran \in Seq(S) /\ n \in Nat /\ argc \in Nat /\ i \in 0..argc
  BY LineFacts, LenProperties DEF BootInv, TypeOK
<1>2. /\ Good \in Nat /\ 2 * Good <= Len(Actions) /\ Good <= Len(Actions) \div 2
      /\ Good < Len(Actions) \div 2 => Actions[2 * Good + 1].name # "run"
      /\ Len(Actions) \in Nat /\ Len(Actions) = argc - Leading /\ Leading \in 0..argc
      /\ Actions \in Seq(S)
  BY <1>1, GoodFacts, ActionsFacts, LeadingFacts
<1>3. /\ \A k \in 1..n : ran[k] = Actions[2 * k] /\ Actions[2 * k - 1].name = "run"
      /\ 2 * n <= Len(Actions)
      /\ phase = "actions" /\ outcome \notin {"ok", "panic"} => 2 * n = Len(Actions)
  <2>1. CASE phase = "actions"
    <3>1. /\ i = Leading + 2 * n
          /\ outcome \notin {"ok", "panic"} => i = argc
          /\ \A k \in 1..n : ran[k] = Actions[2 * k] /\ Actions[2 * k - 1].name = "run"
      BY <2>1 DEF BootInv, ActionInv
    <3> QED BY <1>1, <1>2, <3>1
  <2>2. CASE phase # "actions"
    <3>1. n = 0
      BY <2>2 DEF BootInv, ActionInv
    <3> QED BY <1>2, <2>2, <3>1
  <2> QED BY <2>1, <2>2
<1>4. n <= Good
  <2>1. ASSUME Good < n
        PROVE  FALSE
    <3>1. Good + 1 \in 1..n /\ 2 * (Good + 1) - 1 = 2 * Good + 1
          /\ Good < Len(Actions) \div 2
      BY <1>1, <1>2, <1>3, <2>1
    <3> QED BY <1>2, <1>3, <3>1
  <2> QED BY <1>1, <1>2, <2>1
<1>5. /\ Tasks \in Seq(S) /\ Len(Tasks) = Good
      /\ \A k \in 1..Good : Tasks[k] = Actions[2 * k]
  <2>1. ASSUME NEW k \in 1..Good
        PROVE  Actions[2 * k] \in S
    <3>1. 2 * k \in 1..Len(Actions)
      BY <1>2
    <3> QED BY <1>2, <3>1, ElementOfSeq
  <2> QED BY <1>2, <2>1 DEF Tasks
<1>6. \A k \in 1..n : ran[k] = Tasks[k]
  <2>1. \A k \in 1..n : k \in 1..Good
    BY <1>1, <1>2, <1>4
  <2> QED BY <1>3, <1>5, <2>1
<1>7. IsPrefix(ran, Tasks)
  <2> DEFINE a == SubSeq(ran, 1, n)
             b == SubSeq(Tasks, 1, n)
  <2>1. /\ \A k \in 1..n : ran[k] \in S /\ Tasks[k] \in S
        /\ n - 1 + 1 = n /\ (IF 1 <= n THEN n ELSE 0) = n
    BY <1>1, <1>2, <1>4, <1>5, ElementOfSeq
  <2>2. a \in Seq(S) /\ Len(a) = n /\ \A k \in 1..n : a[k] = ran[1 + k - 1]
    BY <1>1, <2>1, SubSeqProperties
  <2>3. b \in Seq(S) /\ Len(b) = n /\ \A k \in 1..n : b[k] = Tasks[1 + k - 1]
    BY <1>1, <2>1, SubSeqProperties
  <2>4. \A k \in 1..n : 1 + k - 1 = k
    BY <1>1
  <2> HIDE DEF a, b
  <2>5. \A k \in 1..n : a[k] = b[k]
    BY <1>6, <2>2, <2>3, <2>4
  <2>6. a = b
    BY <2>2, <2>3, <2>5, SeqEqual
  <2> QED BY <1>4, <1>5, <2>6 DEF IsPrefix, a, b
<1>8. ASSUME phase = "actions", outcome \notin {"ok", "panic"}
      PROVE  ran = Tasks /\ Len(Actions) = 2 * Good
  <2>1. 2 * n = Len(Actions) /\ n = Good
    BY <1>1, <1>2, <1>3, <1>4, <1>8
  <2>2. ran = Tasks
    BY <1>1, <1>5, <1>6, <2>1, SeqEqual
  <2> QED BY <2>1, <2>2
<1> QED BY <1>7, <1>8 DEF RunsTheLine

\* Nothing happens.
LEMMA Stutter ==
  ASSUME BootInv, UNCHANGED vars
  PROVE  BootInv'
<1>1. /\ UNCHANGED <<line, phase, p, i, thread_mlfqs, seed, how, lists, ran, outcome>>
      /\ UNCHANGED calVars /\ UNCHANGED pagingVars /\ line \in Line
  BY DEF vars, bootVars, BootInv
<1>2. argc' = argc /\ Range(line)' = Range(line) /\ Leading' = Leading /\ Actions' = Actions
  BY <1>1, LineStays
<1>3. PagingInv' /\ CalInv'
  BY <1>1, SetUpStays DEF BootInv
<1>4. TypeOK' /\ ActionInv'
  BY <1>1, <1>2 DEF BootInv, TypeOK, ActionInv, calVars, pagingVars
<1>5. ReadInv'
  BY <1>1, <1>2 DEF BootInv, ReadInv, past_argv
<1>6. ParseInv'
  <2>1. PICK n : n = i
    OBVIOUS
  <2>2. \A names : Named(i, names)' = Named(i, names)
    BY <1>1, <2>1, NamedStays
  <2>3. \A names : LastHow(Named(i, names))' = LastHow(Named(i, names))
    BY <1>1, <2>1, HowStays
  <2> QED BY <1>1, <2>2, <2>3 DEF BootInv, ParseInv, In
<1>7. OptionsHonoured'
  <2>1. CASE phase \in {"paging", "calibrate", "actions"}
    BY <1>1, <2>1, HonouredStays DEF BootInv
  <2>2. CASE phase \notin {"paging", "calibrate", "actions"}
    BY <1>1, <2>2 DEF OptionsHonoured
  <2> QED BY <2>1, <2>2
<1> QED BY <1>1, <1>2, <1>3, <1>4, <1>5, <1>6, <1>7 DEF BootInv

-----------------------------------------------------------------------------
(* What holds whenever the kernel boots.                                   *)

\* BootInv holds in every state of every boot.
THEOREM BootInvariance == Spec => []BootInv
<1>1. Init => BootInv
  BY Initially
<1>2. BootInv /\ [Next]_vars => BootInv'
  <2> SUFFICES ASSUME BootInv, [Next]_vars
               PROVE  BootInv'
    OBVIOUS
  <2>1. CASE BssInit \/ ReadWord \/ ReadDone
    BY <2>1, ReadStep
  <2>2. CASE OptionHelp \/ OptionShutdown \/ OptionSeed \/ OptionMlfqs \/ OptionUnknown
    BY <2>2, ParseStep
  <2>3. CASE OptionsDone
    BY <2>3, OptionsDoneStep
  <2>4. CASE SetUpPage \/ SetUpPaging \/ SetUpTimer
    BY <2>4, SetUpStep
  <2>5. CASE RunAction \/ Shutdown
    BY <2>5, RunStep
  <2>6. CASE UNCHANGED vars
    BY <2>6, Stutter
  <2> QED BY <2>1, <2>2, <2>3, <2>4, <2>5, <2>6 DEF Next
<1> QED BY <1>1, <1>2, PTL DEF Spec

\* The variables of main() keep to their types; argv never runs past argc.
THEOREM BootTypes == Spec => []TypeOK
<1>1. BootInv => TypeOK
  BY DEF BootInv
<1> QED BY <1>1, BootInvariance, PTL

\* read_command_line writes past the end of argv only if a word is empty: for
\* every space of the loader's of an even size, and every number and length of
\* the words.
THEOREM ArgumentsFit == Spec => []ArgvFits
<1> QED BY ReadInvariant, BootInvariance, PTL

\* The options of the line, and nothing that was in memory before bss_init,
\* decide the scheduler, the seed and the way to shut down.
THEOREM SettingsHonoured == Spec => []OptionsHonoured
<1>1. BootInv => OptionsHonoured
  BY DEF BootInv
<1> QED BY <1>1, BootInvariance, PTL

\* run_actions runs the tasks of the line in their order, and all of them if it
\* gets to shutdown().
THEOREM TasksOfTheLine == Spec => []RunsTheLine
<1> QED BY ActionInvariant, BootInvariance, PTL

\* paging_init maps every page of RAM to its frame and nothing else, for any
\* amount of RAM and any size of a page table.
THEOREM MemoryMapped == Spec => []RamMapped
<1>1. BootInv => RamMapped
  BY PagingInvariant DEF BootInv
<1> QED BY <1>1, BootInvariance, PTL

\* timer_calibrate brackets the speed of the machine.
THEOREM CalibrationBrackets == Spec => []CalibrationClosesIn
<1>1. BootInv => CalibrationClosesIn
  BY CalibrationInvariant DEF BootInv
<1> QED BY <1>1, BootInvariance, PTL

\* real_time_delay is never too long, nor much too short.
THEOREM DelaysBounded == Spec => []DelaysRoundDown
<1>1. BootInv => DelaysRoundDown
  BY DelayInvariant DEF BootInv
<1> QED BY <1>1, BootInvariance, PTL

=============================================================================
