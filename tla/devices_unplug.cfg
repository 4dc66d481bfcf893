CONSTANTS
  stick = stick  hub = hub  disk1 = disk1  disk2 = disk2
  kStick = kStick  kHub = kHub  kDisk = kDisk  usb = usb  storage = storage
  Hardware = {stick, hub, disk1, disk2}
  Keys = {kStick, kHub, kDisk}
  Categories = {usb, storage}
  KeyOf <- MCKeyOf
  CategoryOf <- MCCategoryOf
  HealthOf <- MCHealthOf
  Nameless = {hub}
  Queries <- MCQueries
  MaxChanges = 1
  MaxInFlight = 2
SPECIFICATION FairSpec
PROPERTY UnpluggedDisappears
