CONSTANTS
  disk = disk
  image = image
  v1 = v1
  v2 = v2
  None = None
  Disks = {disk}
  Images = {image}
  Volumes = {v1, v2}
  VolumeOf <- OnVolumes
  MaxRunning = 2
  MaxSessions = 1
SPECIFICATION Spec
PROPERTIES SupersededOnlyClose CancelStops
