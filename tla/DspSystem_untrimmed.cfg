SPECIFICATION Spec
CONSTANTS
  Devices <- MCDevices
  Explored <- MCExplored
  Raised <- MCRaised
  Pins = {0, 23, 161}
  Topics = {"adc"}
  Sources = {0, 1, 2}
  Mults = {8, 20}
  Dividers = {1, 2, 63}
INVARIANT Calibrated
