\* One device with a HID interface, plugged in twice; a client thread sets its
\* reports.
CONSTANTS
  NUM_CHANNELS = 3
  NUM_ENDPOINTS = 2
  nullptr = nullptr
  MaxPlugs = 2
SPECIFICATION UsbSpec
INVARIANTS
  ControlChannelsOpen
CHECK_DEADLOCK FALSE
