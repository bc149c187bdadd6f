------------------------------- MODULE Nrf24 -------------------------------
(***************************************************************************)
(* The nRF24 drivers of src/Pico2_V1_RF/src/nrf24.c and                    *)
(* src/Pico2_BasicRF/src/nrf24.c, and as much of the chip as they rely on. *)
(* A driver routine is the sequence of its SPI exchanges and pin changes;  *)
(* the program executes them one at a time while the chip goes on.         *)
(***************************************************************************)
EXTENDS Integers, Sequences, FiniteSets, SequencesExt

CONSTANTS
  Level,         \* transmit powers that are tried
  Scanned,       \* channels of a scan
  FIFO_DEPTH     \* three in the chip

ASSUME ChipAssumption ==
  Level \subseteq 0 .. 3 /\ Scanned \in Seq(0 .. 125) /\ FIFO_DEPTH \in Nat \ {0}

Firmware == {"V1", "BasicRF"}
RF_CHANNEL == 76
PayloadSize(fw) == IF fw = "V1" THEN 32 ELSE 8       \* NRF24_PAYLOAD_SIZE

IRQ_MASK == {"RX_DR", "TX_DS", "MAX_RT"}

\* CONFIG: powered down, transmitter and receiver, all with a two-byte CRC.
Down == 12
PTX  == 14
PRX  == 15

\* Registers after power-up, from the chip's data sheet (external).  STATUS is
\* chip.flags; an address is a station.
ResetRegisters ==
  [CONFIG |-> 8, EN_AA |-> 63, EN_RXADDR |-> 3, SETUP_AW |-> 3, SETUP_RETR |-> 3,
   RF_CH |-> 2, RF_SETUP |-> 14, RX_PW_P0 |-> 0, DYNPD |-> 0, FEATURE |-> 0,
   RX_ADDR_P0 |-> "none", TX_ADDR |-> "none"]

ResetChip(ce) ==
  [reg |-> ResetRegisters, flags |-> {}, rx |-> <<>>, tx |-> <<>>,
   ce |-> ce, on |-> TRUE, sending |-> FALSE, acking |-> <<>>]

-----------------------------------------------------------------------------
\* Exchanges

CE(high)        == <<"ce", high>>
Write(reg, val) == <<"write", reg, val>>           \* write_register()
Clear(flags)    == <<"clear", flags>>              \* the same, of STATUS
FlushRx         == <<"flush_rx">>
FlushTx         == <<"flush_tx">>
Payload(p)      == <<"payload", p>>                \* write_payload()
Expect(reg, val) == <<"expect", reg, val>>         \* read_register() and compare
Guard           == <<"guard">>                     \* sleep_us(AUTO_ACK_GUARD_US)
Poll            == <<"poll">>                      \* nrf24_read_status() in a loop

\* What an exchange does to the chip.  Lowering CE cuts an acknowledgement short;
\* raising it in PTX starts the transmission of what is in the FIFO.
OnChip(c, x) ==
  IF x[1] = "ce"
    THEN [c EXCEPT !.ce = x[2],
                   !.acking = IF x[2] THEN @ ELSE <<>>,
                   !.sending = @ \/ (x[2] /\ c.on /\ c.reg.CONFIG = PTX /\ c.tx # <<>>)]
  ELSE IF ~c.on THEN c
  ELSE CASE x[1] = "write" -> [c EXCEPT !.reg[x[2]] = x[3],
                                        !.sending = @ /\ ~(x[2] = "CONFIG" /\ x[3] # PTX)]
         [] x[1] = "clear" -> [c EXCEPT !.flags = @ \ x[2]]
         [] x[1] = "flush_rx" -> [c EXCEPT !.rx = <<>>]
         [] x[1] = "flush_tx" -> [c EXCEPT !.tx = <<>>, !.sending = FALSE]
         [] x[1] = "payload" ->
              [c EXCEPT !.tx = IF Len(@) < FIFO_DEPTH THEN Append(@, x[2]) ELSE @]
         [] OTHER -> c

\* The level bits of RF_SETUP are not compared.
WithoutLevel(reg, val) == IF reg = "RF_SETUP" THEN val - 2 * ((val \div 2) % 4) ELSE val

\* A chip without power reads as zero.
Matches(c, x) == (IF c.on THEN WithoutLevel(x[2], c.reg[x[2]]) ELSE 0) = x[3]

-----------------------------------------------------------------------------
\* Routines

\* nrf24_init(): V1 lowers CE once more, which nrf24_init_pins() has done.
Configure(fw) ==
  <<CE(FALSE), Write("CONFIG", Down), Write("EN_AA", 1), Write("EN_RXADDR", 1),
    Write("SETUP_AW", 3), Write("SETUP_RETR", 47), Write("RF_CH", RF_CHANNEL),
    Write("RF_SETUP", 0), Write("RX_PW_P0", PayloadSize(fw)), Write("DYNPD", 0),
    Write("FEATURE", 0), Clear(IRQ_MASK), FlushRx, FlushTx, Write("CONFIG", PTX)>>

CheckConfigShort(fw) ==                 \* mutant: one register is not compared
  <<Expect("EN_RXADDR", 1), Expect("SETUP_AW", 3), Expect("SETUP_RETR", 47),
    Expect("RF_CH", RF_CHANNEL), Expect("RF_SETUP", 0), Expect("RX_PW_P0", PayloadSize(fw))>>

\* nrf24_check_config(), and the end of the BasicRF nrf24_init().
CheckConfig(fw) ==
  IF fw = "V1"
    THEN <<Expect("EN_AA", 1), Expect("EN_RXADDR", 1), Expect("SETUP_AW", 3),
           Expect("SETUP_RETR", 47), Expect("RF_CH", RF_CHANNEL), Expect("RF_SETUP", 0),
           Expect("RX_PW_P0", PayloadSize(fw))>>
    ELSE <<Expect("SETUP_AW", 3), Expect("RF_CH", RF_CHANNEL),
           Expect("RX_PW_P0", PayloadSize(fw))>>

\* nrf24_set_channel(), which BasicRF does not have.
SetChannel(fw) == IF fw = "V1" THEN <<CE(FALSE), Write("RF_CH", RF_CHANNEL)>> ELSE <<>>

StartListeningEarly(fw, own) ==         \* mutant: CE rises before the address is written
  SetChannel(fw) \o
  <<CE(FALSE), Clear(IF fw = "V1" THEN IRQ_MASK ELSE {"RX_DR"}), Write("CONFIG", PRX),
    CE(TRUE), Write("RX_ADDR_P0", own)>>

\* nrf24_start_listening() within start_station_receiver().
StartListening(fw, own) ==
  SetChannel(fw) \o
  <<CE(FALSE), Write("RX_ADDR_P0", own), Clear(IF fw = "V1" THEN IRQ_MASK ELSE {"RX_DR"}),
    Write("CONFIG", PRX), CE(TRUE)>>

SendStartUncleared(to, p) ==            \* mutant: flags of an earlier send are kept
  <<CE(FALSE), Write("CONFIG", PTX), Write("TX_ADDR", to), Write("RX_ADDR_P0", to),
    FlushTx, Payload(p), CE(TRUE), CE(FALSE), Poll>>

SendStartFlushingRx(to, p) ==           \* mutant: the wrong FIFO is flushed
  <<CE(FALSE), Write("CONFIG", PTX), Write("TX_ADDR", to), Write("RX_ADDR_P0", to),
    Clear(IRQ_MASK), FlushRx, Payload(p), CE(TRUE), CE(FALSE), Poll>>

\* nrf24_send() as far as the wait for the outcome: the acknowledgement comes
\* to the destination's address.
SendStart(to, p) ==
  <<CE(FALSE), Write("CONFIG", PTX), Write("TX_ADDR", to), Write("RX_ADDR_P0", to),
    Clear(IRQ_MASK), FlushTx, Payload(p), CE(TRUE), CE(FALSE), Poll>>

\* The rest of nrf24_send(): BasicRF leaves a flag standing after a timeout.
SendEnd(fw, result) ==
  LET clear == IF fw = "V1" THEN <<Clear(IRQ_MASK)>>
               ELSE CASE result = "ok" -> <<Clear({"TX_DS"})>>
                      [] result = "max_retries" -> <<Clear({"MAX_RT"})>>
                      [] result = "timeout" -> <<>>
  IN  IF result = "ok" THEN clear ELSE Append(clear, FlushTx)

SetTxPowerDeaf(level, was_listening) == \* mutant: CE stays low
  <<CE(FALSE), Write("RF_SETUP", 2 * level)>>

\* nrf24_set_tx_power()
SetTxPower(level, was_listening) ==
  <<CE(FALSE), Write("RF_SETUP", 2 * level)>> \o (IF was_listening THEN <<CE(TRUE)>> ELSE <<>>)

\* nrf24_measure_channel_noise(), one sample for the code's sixteen: what a sample
\* leaves behind does not depend on how many came before.
MeasureChannelNoise(channel) ==
  <<CE(FALSE), Write("RF_CH", channel), Write("CONFIG", PRX), CE(TRUE), CE(FALSE),
    FlushRx, Clear({"RX_DR"})>>

\* scan_rf_channels()
Scan ==
  [i \in 1 .. 7 * Len(Scanned) |->
     MeasureChannelNoise(Scanned[(i + 6) \div 7])[((i - 1) % 7) + 1]]

CanReceiveFlagged(c) == "RX_DR" \in c.flags /\ c.rx # <<>>  \* mutant: the flag is asked, not the FIFO

\* nrf24_receive() finds a packet: FIFO_STATUS says that the FIFO is not empty.
CanReceive(c) == c.rx # <<>>

-----------------------------------------------------------------------------
\* The chip (external)

Listening(c, fw, own) ==
  /\ c.on /\ c.ce /\ c.reg.CONFIG = PRX
  /\ c.reg.RF_CH = RF_CHANNEL /\ c.reg.RX_ADDR_P0 = own
  /\ c.reg.RX_PW_P0 = PayloadSize(fw)

\* A packet is taken in, and its acknowledgement begins.
CanHear(c, fw, p) == Listening(c, fw, p.to) /\ Len(c.rx) < FIFO_DEPTH /\ c.acking = <<>>

Heard(c, p) == [c EXCEPT !.rx = Append(@, p), !.acking = <<p>>, !.flags = @ \cup {"RX_DR"}]

Acked(c) == [c EXCEPT !.tx = Tail(@), !.sending = FALSE, !.flags = @ \cup {"TX_DS"}]
Unanswered(c) == [c EXCEPT !.sending = FALSE, !.flags = @ \cup {"MAX_RT"}]
=============================================================================
