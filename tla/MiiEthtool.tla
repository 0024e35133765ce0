----------------------------- MODULE MiiEthtool -----------------------------
(***************************************************************************)
(* The MII <-> ethtool advertisement translators of compat-3.3.h, as a PHY *)
(* driver uses them: ethtool advertising bits are written to MII_ADVERTISE *)
(* and MII_CTRL1000 (1000Base-T) or to MII_ADVERTISE in its 1000Base-X     *)
(* layout, the link partner's PHY runs the same code on its side, and the  *)
(* driver reads back its own registers and the partner's (MII_LPA,         *)
(* MII_STAT1000) to report them to ethtool.  The two layouts share bit     *)
(* positions (ADVERTISE_10HALF = ADVERTISE_1000XFULL = 0x20), so a bit      *)
(* taken from the wrong table silently changes the meaning.                *)
(***************************************************************************)
EXTENDS Integers, FiniteSetsExt
LOCAL INSTANCE Bitwise

CONSTANT Settings   \* ethtool advertising masks the user may request

\* ethtool advertising bits (include/uapi/linux/ethtool.h)
ADVERTISED_10baseT_Half   == 1
ADVERTISED_10baseT_Full   == 2
ADVERTISED_100baseT_Half  == 4
ADVERTISED_100baseT_Full  == 8
ADVERTISED_1000baseT_Half == 16
ADVERTISED_1000baseT_Full == 32
ADVERTISED_Autoneg        == 64
ADVERTISED_Pause          == 8192
ADVERTISED_Asym_Pause     == 16384

\* MII register bits (include/uapi/linux/mii.h)
ADVERTISE_10HALF        == 32
ADVERTISE_1000XFULL     == 32
ADVERTISE_10FULL        == 64
ADVERTISE_1000XHALF     == 64
ADVERTISE_100HALF       == 128
ADVERTISE_1000XPAUSE    == 128
ADVERTISE_100FULL       == 256
ADVERTISE_1000XPSE_ASYM == 256
ADVERTISE_PAUSE_CAP     == 1024
ADVERTISE_PAUSE_ASYM    == 2048
ADVERTISE_1000HALF      == 256     \* MII_CTRL1000
ADVERTISE_1000FULL      == 512
LPA_LPACK               == 16384   \* MII_LPA
LPA_1000HALF            == 1024    \* MII_STAT1000
LPA_1000FULL            == 2048

\* result = 0; for each <<from, to>>: if (v & from) result |= to
MapBits(v, table) == SumSet({p[2] : p \in {q \in table : (v & q[1]) # 0}})
-----------------------------------------------------------------------------
ethtool_adv_to_mii_adv_t(ethadv) ==
    MapBits(ethadv, {<<ADVERTISED_10baseT_Half, ADVERTISE_10HALF>>,
                     <<ADVERTISED_10baseT_Full, ADVERTISE_10FULL>>,
                     <<ADVERTISED_100baseT_Half, ADVERTISE_100HALF>>,
                     <<ADVERTISED_100baseT_Full, ADVERTISE_100FULL>>,
                     <<ADVERTISED_Pause, ADVERTISE_PAUSE_CAP>>,
                     <<ADVERTISED_Asym_Pause, ADVERTISE_PAUSE_ASYM>>})

mii_adv_to_ethtool_adv_t(adv) ==
    MapBits(adv, {<<ADVERTISE_10HALF, ADVERTISED_10baseT_Half>>,
                  <<ADVERTISE_10FULL, ADVERTISED_10baseT_Full>>,
                  <<ADVERTISE_100HALF, ADVERTISED_100baseT_Half>>,
                  <<ADVERTISE_100FULL, ADVERTISED_100baseT_Full>>,
                  <<ADVERTISE_PAUSE_CAP, ADVERTISED_Pause>>,
                  <<ADVERTISE_PAUSE_ASYM, ADVERTISED_Asym_Pause>>})

\* fault: the ethtool bit of the same name used in place of the MII one
ethtool_adv_to_mii_ctrl1000_t_ethbit(ethadv) ==
    MapBits(ethadv, {<<ADVERTISED_1000baseT_Half, ADVERTISE_1000HALF>>,
                     <<ADVERTISED_1000baseT_Full, ADVERTISED_1000baseT_Full>>})

ethtool_adv_to_mii_ctrl1000_t(ethadv) ==
    MapBits(ethadv, {<<ADVERTISED_1000baseT_Half, ADVERTISE_1000HALF>>,
                     <<ADVERTISED_1000baseT_Full, ADVERTISE_1000FULL>>})

\* fault: the half and full duplex bits read back crossed over
mii_ctrl1000_to_ethtool_adv_t_swapped(adv) ==
    MapBits(adv, {<<ADVERTISE_1000HALF, ADVERTISED_1000baseT_Full>>,
                  <<ADVERTISE_1000FULL, ADVERTISED_1000baseT_Half>>})

mii_ctrl1000_to_ethtool_adv_t(adv) ==
    MapBits(adv, {<<ADVERTISE_1000HALF, ADVERTISED_1000baseT_Half>>,
                  <<ADVERTISE_1000FULL, ADVERTISED_1000baseT_Full>>})

\* fault: the link partner's acknowledge bit not translated
mii_lpa_to_ethtool_lpa_t_noack(lpa) == mii_adv_to_ethtool_adv_t(lpa)

mii_lpa_to_ethtool_lpa_t(lpa) ==
    MapBits(lpa, {<<LPA_LPACK, ADVERTISED_Autoneg>>}) | mii_adv_to_ethtool_adv_t(lpa)

mii_stat1000_to_ethtool_lpa_t(lpa) ==
    MapBits(lpa, {<<LPA_1000HALF, ADVERTISED_1000baseT_Half>>,
                  <<LPA_1000FULL, ADVERTISED_1000baseT_Full>>})

\* The 1000Base-X translators.  Their comments in compat-3.3.h name the
\* MII_CTRL1000 register, but the ADVERTISE_1000X* bits they use are bits
\* of MII_ADVERTISE in its 1000Base-X layout (include/linux/mii.h), and
\* that is the register a 1000Base-X PHY driver writes them to; so here
\* they read and write adv, the MII_ADVERTISE register.
ethtool_adv_to_mii_adv_x(ethadv) ==
    MapBits(ethadv, {<<ADVERTISED_1000baseT_Half, ADVERTISE_1000XHALF>>,
                     <<ADVERTISED_1000baseT_Full, ADVERTISE_1000XFULL>>,
                     <<ADVERTISED_Pause, ADVERTISE_1000XPAUSE>>,
                     <<ADVERTISED_Asym_Pause, ADVERTISE_1000XPSE_ASYM>>})

mii_adv_to_ethtool_adv_x(adv) ==
    MapBits(adv, {<<ADVERTISE_1000XHALF, ADVERTISED_1000baseT_Half>>,
                  <<ADVERTISE_1000XFULL, ADVERTISED_1000baseT_Full>>,
                  <<ADVERTISE_1000XPAUSE, ADVERTISED_Pause>>,
                  <<ADVERTISE_1000XPSE_ASYM, ADVERTISED_Asym_Pause>>})

mii_lpa_to_ethtool_lpa_x(lpa) ==
    MapBits(lpa, {<<LPA_LPACK, ADVERTISED_Autoneg>>}) | mii_adv_to_ethtool_adv_x(lpa)
-----------------------------------------------------------------------------
(* A PHY driver's cycle: configure autonegotiation from the ethtool mask,  *)
(* the link partner's PHY answers, the driver reads the status back.       *)
VARIABLES
    mode,      \* "T" (1000Base-T, two registers) or "X" (1000Base-X)
    ethadv,    \* the advertising mask ethtool asked for
    partner,   \* the mask the link partner's driver asked for
    adv,       \* MII_ADVERTISE
    ctrl1000,  \* MII_CTRL1000
    lpa,       \* MII_LPA: the partner's MII_ADVERTISE plus LPA_LPACK
    stat1000,  \* MII_STAT1000: the partner's MII_CTRL1000, two bits up
    reported,  \* advertising as read back for ethtool
    lp,        \* lp_advertising as read back for ethtool
    step       \* "config", "aneg", "read", "done"

vars == <<mode, ethadv, partner, adv, ctrl1000, lpa, stat1000, reported, lp, step>>

\* a 16-bit MII register value using only the given bits
InReg(v, bits) == v \in 0..65535 /\ (v & (65535 - SumSet(bits))) = 0

TypeOK ==
    /\ mode \in {"T", "X"}
    /\ ethadv \in Settings /\ partner \in Settings
    /\ InReg(adv, {32, 64, 128, 256, 512, 1024, 2048})
    /\ InReg(ctrl1000, {ADVERTISE_1000HALF, ADVERTISE_1000FULL})
    /\ InReg(lpa, {32, 64, 128, 256, 512, 1024, 2048, LPA_LPACK})
    /\ InReg(stat1000, {LPA_1000HALF, LPA_1000FULL})
    /\ reported \in Nat /\ lp \in Nat
    /\ step \in {"config", "aneg", "read", "done"}

Init ==
    /\ mode \in {"T", "X"}
    /\ ethadv \in Settings /\ partner \in Settings
    /\ adv = 0 /\ ctrl1000 = 0 /\ lpa = 0 /\ stat1000 = 0
    /\ reported = 0 /\ lp = 0
    /\ step = "config"

\* config_aneg: the ethtool mask written in the layout of the PHY's mode
ConfigAneg ==
    /\ step = "config"
    /\ IF mode = "T"
       THEN /\ adv' = ethtool_adv_to_mii_adv_t(ethadv)
            /\ ctrl1000' = ethtool_adv_to_mii_ctrl1000_t(ethadv)
       ELSE /\ adv' = ethtool_adv_to_mii_adv_x(ethadv)
            /\ ctrl1000' = 0
    /\ step' = "aneg"
    /\ UNCHANGED <<mode, ethadv, partner, lpa, stat1000, reported, lp>>

\* the partner's PHY, configured by the same code, completes the exchange;
\* whether it has acknowledged our page yet is its choice
Autoneg ==
    /\ step = "aneg"
    /\ \E ack \in {0, LPA_LPACK} :
        IF mode = "T"
        THEN /\ lpa' = ethtool_adv_to_mii_adv_t(partner) + ack
             /\ stat1000' = ethtool_adv_to_mii_ctrl1000_t(partner) * 4
        ELSE /\ lpa' = ethtool_adv_to_mii_adv_x(partner) + ack
             /\ stat1000' = 0
    /\ step' = "read"
    /\ UNCHANGED <<mode, ethadv, partner, adv, ctrl1000, reported, lp>>

\* read_status / get_settings: the registers translated back for ethtool
ReadStatus ==
    /\ step = "read"
    /\ IF mode = "T"
       THEN /\ reported' = mii_adv_to_ethtool_adv_t(adv) | mii_ctrl1000_to_ethtool_adv_t(ctrl1000)
            /\ lp' = mii_lpa_to_ethtool_lpa_t(lpa) | mii_stat1000_to_ethtool_lpa_t(stat1000)
       ELSE /\ reported' = mii_adv_to_ethtool_adv_x(adv)
            /\ lp' = mii_lpa_to_ethtool_lpa_x(lpa)
    /\ step' = "done"
    /\ UNCHANGED <<mode, ethadv, partner, adv, ctrl1000, lpa, stat1000>>

\* the link drops or autonegotiation is restarted: the cycle runs again on
\* the registers the last one left
Restart ==
    /\ step = "done"
    /\ step' = "config"
    /\ UNCHANGED <<mode, ethadv, partner, adv, ctrl1000, lpa, stat1000, reported, lp>>

Next == ConfigAneg \/ Autoneg \/ ReadStatus \/ Restart

Spec == Init /\ [][Next]_vars
-----------------------------------------------------------------------------
\* the link modes each layout can carry
SupportedT == {ADVERTISED_10baseT_Half, ADVERTISED_10baseT_Full,
               ADVERTISED_100baseT_Half, ADVERTISED_100baseT_Full,
               ADVERTISED_1000baseT_Half, ADVERTISED_1000baseT_Full,
               ADVERTISED_Pause, ADVERTISED_Asym_Pause}
SupportedX == {ADVERTISED_1000baseT_Half, ADVERTISED_1000baseT_Full,
               ADVERTISED_Pause, ADVERTISED_Asym_Pause}
Supported(m) == SumSet(IF m = "T" THEN SupportedT ELSE SupportedX)

\* What the driver reports as advertised is what ethtool asked for, cut to
\* the modes the PHY's register layout carries: the ethtool_adv_to_mii_*
\* and mii_*_to_ethtool_* translators of a mode are inverse on those bits.
AdvertisingReadBack ==
    step = "done" => reported = (ethadv & Supported(mode))

\* What the driver reports of the link partner is what the partner's driver
\* asked for, in the same modes, plus Autoneg exactly when the partner
\* acknowledged (LPA_LPACK); the 1000Base-T bits travel through
\* MII_STAT1000, the others through MII_LPA.
PartnerReadBack ==
    step = "done" =>
        lp = ((partner & Supported(mode)) | (IF (lpa & LPA_LPACK) # 0 THEN ADVERTISED_Autoneg ELSE 0))
=============================================================================
